---- MODULE Spec2Model ----
(***************************************************************************)
(* Model of the resilient execution orchestrator of oneclick_daily_run.py: *)
(* PRIMARY -> FALLBACK runs of an opaque Job, output validation, stability *)
(* check against the previous status record, RUN_STATUS.txt / .json and    *)
(* the rolling run_summary.csv.                                            *)
(***************************************************************************)
EXTENDS Integers, Sequences, FiniteSets, TLC

\* ---------------------------------------------------------------------
\* Bounds
\* ---------------------------------------------------------------------
\* number of orchestrator invocations in one behaviour
MaxRuns == 2
\* number of _write_run_status calls in one behaviour of SpecWrite
MaxWrites == 3
\* number of _append_run_summary calls in one behaviour of SpecLedger
MaxAppends == 3
\* last day of the wall clock in SpecLedger
MaxDay == 47

\* ---------------------------------------------------------------------
\* Paths.  A path is a directory and a file name; the file name is a
\* sequence of tokens whose last token may be an extension.
\* ---------------------------------------------------------------------
Exts == {".csv", ".txt", ".json"}

NoPath == [dir |-> "", name |-> <<>>]

P(d, n) == [dir |-> d, name |-> n]

\* Path.suffix
Suffix(p) ==
    IF Len(p.name) > 1 /\ p.name[Len(p.name)] \in Exts
    THEN p.name[Len(p.name)] ELSE ""

\* Path.stem
Stem(p) ==
    IF Suffix(p) # "" THEN SubSeq(p.name, 1, Len(p.name) - 1) ELSE p.name

\* Path.with_name
with_name(p, n) == [p EXCEPT !.name = n]

\* Path.with_suffix
with_suffix(p, s) == with_name(p, Stem(p) \o <<s>>)

\* Path.parent
Parent(p) == p.dir

\* out.csv -> out__FALLBACK.csv; out -> out__FALLBACK
tagged_path(p, tag) ==
    IF Suffix(p) # ""
    THEN with_name(p, Stem(p) \o <<tag>> \o <<Suffix(p)>>)
    ELSE with_name(p, p.name \o <<tag>>)

FALLBACK_TAG == "__FALLBACK"

\* ---------------------------------------------------------------------
\* File contents of inputs and artifacts
\* ---------------------------------------------------------------------
\* "absent": no file; "empty": zero bytes; "bad": non-empty CSV without
\* the required columns; "v1", "v2": CSVs with every required column,
\* "v2" saved with a byte-order mark; "i1", "i2", "mintest": input datasets.
Contents == {"absent", "empty", "bad", "v1", "v2", "i1", "i2", "mintest"}

Exists(c) == c # "absent"

\* st_size (only zero / non-zero matters)
StSize(c) == IF c \in {"absent", "empty"} THEN 0 ELSE 1

REQUIRED_OUTPUT_COLS ==
    { "code", "market", "close", "trade_value", "light_full",
      "light_decision", "light_top20" }

\* the byte-order mark, as the character that utf-8 decoding leaves
BOM == "\\ufeff"

\* the first row of the file, a cell being a sequence of characters or
\* of names standing for runs of characters
Header(c) ==
    CASE c = "v1"  -> << <<"code">>, <<"market">>, <<"close">>,
                         <<"trade_value">>, <<"light_full">>,
                         <<"light_decision">>, <<"light_top20">> >>
      [] c = "v2"  -> << <<BOM, "code">>, <<"market">>, <<"close">>,
                         <<"trade_value">>, <<"light_full">>,
                         <<"light_decision">>, <<"light_top20">> >>
      [] c = "bad" -> << <<"code">>, <<"market">>, <<"close">> >>
      [] OTHER     -> << >>

RECURSIVE lstrip(_, _)
\* str.lstrip(ch)
lstrip(cell, ch) ==
    IF cell # <<>> /\ cell[1] = ch THEN lstrip(Tail(cell), ch) ELSE cell

\* as _read_csv_header_cols, leaving the byte-order mark in place
read_csv_header_cols_raw(c) ==
    Header(c)

\* _read_csv_header_cols
read_csv_header_cols(c) ==
    [i \in 1..Len(Header(c)) |->
        IF i = 1 THEN lstrip(Header(c)[i], BOM) ELSE Header(c)[i]]

\* header of the CSV has every column of REQUIRED_OUTPUT_COLS
HasRequiredCols(c) ==
    LET cols == read_csv_header_cols(c)
        colset == {cols[i] : i \in 1..Len(cols)}
    IN  \A r \in REQUIRED_OUTPUT_COLS : <<r>> \in colset

sha256_file(c) ==
    CASE c = "empty"   -> "sha_empty"
      [] c = "bad"     -> "sha_bad"
      [] c = "v1"      -> "sha_v1"
      [] c = "v2"      -> "sha_v2"
      [] c = "i1"      -> "sha_i1"
      [] c = "i2"      -> "sha_i2"
      [] c = "mintest" -> "sha_mintest"

\* _check_outputs_or_raise: TRUE when it does not raise
check_outputs(fsv, output_path, top20_path) ==
    /\ Exists(fsv[output_path])
    /\ StSize(fsv[output_path]) # 0
    /\ top20_path # NoPath =>
          /\ Exists(fsv[top20_path])
          /\ StSize(fsv[top20_path]) # 0

\* as _assert_output_schema, without the early return for a non-.csv output
assert_output_schema_any_suffix(fsv, output_path) ==
    HasRequiredCols(fsv[output_path])

\* _assert_output_schema: TRUE when it does not raise
assert_output_schema(fsv, output_path) ==
    IF Suffix(output_path) # ".csv" THEN TRUE
    ELSE HasRequiredCols(fsv[output_path])

\* _stable_key
\* Texts are sequences of tokens: one token for each directory, each part
\* of a file name and each separator, so that joining texts is
\* concatenation.  The empty text is <<>>.
Text(s) == IF s = "" THEN <<>> ELSE <<s>>

\* str(path)
path_str(p) == <<p.dir, "/">> \o p.name

\* _stable_key: the four texts joined with "||"
stable_key(mode, input_path, input_sha256, top20_path) ==
    LET t == IF top20_path # NoPath THEN path_str(top20_path) ELSE <<>>
    IN  <<mode, "||">> \o path_str(input_path) \o <<"||">>
          \o Text(input_sha256) \o <<"||">> \o t

\* Optional[int]
None == <<>>
Some(x) == <<x>>

\* Timestamps as text.  datetime.isoformat of the instant t (in days);
\* the empty text; a text that datetime.fromisoformat rejects.
isoformat(t) == <<"iso", t>>
NoText == <<>>
LEGACY_TS == <<"legacy">>

\* _parse_ts of _append_run_summary: None for an empty or unparseable text
parse_ts(s) ==
    IF Len(s) = 2 /\ s[1] = "iso" THEN Some(s[2]) ELSE None


\* ---------------------------------------------------------------------
\* Status documents and the rolling summary
\* ---------------------------------------------------------------------
KEEP_DAYS == 30

NoKey == <<>>

\* the payload dict of _write_run_status, computed from the file system
\* as it is at the time of the call
StatusPayload(fsv, ts, mode, run_key, input_path, input_sha256, output_path, top20_path, result, used_core, primary_rc, fallback_rc, primary_error, fallback_error) ==
    LET out_exists == Exists(fsv[output_path])
        out_size   == IF out_exists THEN StSize(fsv[output_path]) ELSE 0
        top_exists == IF top20_path # NoPath THEN Exists(fsv[top20_path]) ELSE FALSE
        top_size   == IF top20_path # NoPath /\ top_exists
                      THEN StSize(fsv[top20_path]) ELSE 0
    IN  [ timestamp           |-> isoformat(ts),
          mode                |-> mode,
          run_key             |-> run_key,
          input               |-> input_path,
          input_sha256        |-> input_sha256,
          output              |-> output_path,
          top20               |-> top20_path,
          result              |-> result,
          used_core           |-> used_core,
          primary_returncode  |-> primary_rc,
          fallback_returncode |-> fallback_rc,
          output_exists       |-> out_exists,
          output_bytes        |-> out_size,
          top20_exists        |-> top_exists,
          top20_bytes         |-> top_size,
          output_sha256       |-> IF out_exists /\ out_size > 0
                                  THEN sha256_file(fsv[output_path]) ELSE "",
          top20_sha256        |-> IF top20_path # NoPath /\ top_exists /\ top_size > 0
                                  THEN sha256_file(fsv[top20_path]) ELSE "",
          primary_error       |-> primary_error,
          fallback_error      |-> fallback_error ]

\* what prev.get(k, "") yields on the empty dict
EmptyPayload ==
    [ timestamp |-> NoText, mode |-> "", run_key |-> NoKey, input |-> NoPath,
      input_sha256 |-> "", output |-> NoPath, top20 |-> NoPath,
      result |-> "", used_core |-> "", primary_returncode |-> None,
      fallback_returncode |-> None, output_exists |-> FALSE,
      output_bytes |-> 0, top20_exists |-> FALSE, top20_bytes |-> 0,
      output_sha256 |-> "", top20_sha256 |-> "",
      primary_error |-> "", fallback_error |-> "" ]

\* a status file on disk: no file, a complete document, or a file that
\* was opened for writing (truncated) and not yet completely written
AbsentDoc == [state |-> "absent", payload |-> EmptyPayload]
TornDoc == [state |-> "torn", payload |-> EmptyPayload]
CompleteDoc(pl) == [state |-> "complete", payload |-> pl]

\* a status file whose text is valid JSON but not an object, "[]" for one
NonObjectDoc == [state |-> "nonobject", payload |-> EmptyPayload]

\* what json.loads returns for such a text: a value that is not a dict
NotADict == [json |-> "list"]

\* _read_prev_status_json: {} when the file is missing or does not parse,
\* else whatever json.loads returned
read_prev_status_json(doc) ==
    IF doc.state = "absent" THEN EmptyPayload
    ELSE IF doc.state = "torn" THEN EmptyPayload
    ELSE IF doc.state = "nonobject" THEN NotADict
    ELSE doc.payload

\* prev.get(...) in _stability_compare_or_fail raises AttributeError on a
\* value that is not a dict
prev_get_raises(prev) == prev = NotADict

SUMMARY_COLS ==
    { "timestamp", "mode", "run_key", "input", "input_sha256", "output",
      "top20", "result", "used_core", "primary_returncode",
      "fallback_returncode", "output_exists", "output_bytes",
      "top20_exists", "top20_bytes", "output_sha256", "top20_sha256" }

SummaryRow(pl) == [k \in SUMMARY_COLS |-> pl[k]]

\* as _append_run_summary, dropping the rows whose timestamp does not parse
append_run_summary_parsed_only(rows, pl, keep_days, nowv) ==
    LET cutoff == nowv - keep_days
        Keep(row) == LET ts == parse_ts(row["timestamp"])
                     IN  ts # None /\ ts[1] >= cutoff
    IN  SelectSeq(Append(rows, SummaryRow(pl)), Keep)

\* _append_run_summary: append, then keep the rows whose timestamp does
\* not parse or is not older than the cutoff
append_run_summary(rows, pl, keep_days, nowv) ==
    LET cutoff == nowv - keep_days
        Keep(row) == LET ts == parse_ts(row["timestamp"])
                     IN  ts = None \/ ts[1] >= cutoff
    IN  SelectSeq(Append(rows, SummaryRow(pl)), Keep)

\* the arguments of the SystemExit raised by main()
EXIT_DRY_RUN_FAILED == 10
EXIT_FALLBACK_MISSING == 2
EXIT_BOTH_FAILED == 3
EXIT_OUTPUT_CHANGED == 20
EXIT_TOP20_CHANGED == 21

\* as _stability_compare_or_fail, without the comparison of the top20 hash
stability_compare_output_only(prev, run_key, fsv, output_path, top20_path) ==
    IF prev.run_key # run_key THEN 0
    ELSE IF prev.result # "SUCCESS" THEN 0
    ELSE IF /\ prev.output_sha256 # ""
            /\ sha256_file(fsv[output_path]) # prev.output_sha256
         THEN EXIT_OUTPUT_CHANGED
    ELSE 0

\* as _stability_compare_or_fail, comparing against a previous record of
\* any result
stability_compare_any_result(prev, run_key, fsv, output_path, top20_path) ==
    IF prev.run_key # run_key THEN 0
    ELSE IF /\ prev.output_sha256 # ""
            /\ sha256_file(fsv[output_path]) # prev.output_sha256
         THEN EXIT_OUTPUT_CHANGED
    ELSE IF /\ top20_path # NoPath
            /\ prev.top20_sha256 # ""
            /\ sha256_file(fsv[top20_path]) # prev.top20_sha256
         THEN EXIT_TOP20_CHANGED
    ELSE 0

\* as _stability_compare_or_fail, failing with the exit code of an
\* ordinary failure
stability_compare_ordinary_code(prev, run_key, fsv, output_path, top20_path) ==
    IF prev.run_key # run_key THEN 0
    ELSE IF prev.result # "SUCCESS" THEN 0
    ELSE IF /\ prev.output_sha256 # ""
            /\ sha256_file(fsv[output_path]) # prev.output_sha256
         THEN EXIT_BOTH_FAILED
    ELSE IF /\ top20_path # NoPath
            /\ prev.top20_sha256 # ""
            /\ sha256_file(fsv[top20_path]) # prev.top20_sha256
         THEN EXIT_BOTH_FAILED
    ELSE 0

\* _stability_compare_or_fail: 0 when it returns, else the exit code
\* handed to _stability_fail
stability_compare(prev, run_key, fsv, output_path, top20_path) ==
    IF prev.run_key # run_key THEN 0
    ELSE IF prev.result # "SUCCESS" THEN 0
    ELSE IF /\ prev.output_sha256 # ""
            /\ sha256_file(fsv[output_path]) # prev.output_sha256
         THEN EXIT_OUTPUT_CHANGED
    ELSE IF /\ top20_path # NoPath
            /\ prev.top20_sha256 # ""
            /\ sha256_file(fsv[top20_path]) # prev.top20_sha256
         THEN EXIT_TOP20_CHANGED
    ELSE 0

StabilityMsg(code) ==
    IF code = EXIT_OUTPUT_CHANGED
    THEN "STABILITY CHECK FAILED: output sha256 changed"
    ELSE "STABILITY CHECK FAILED: top20 sha256 changed"

\* how the interpreter turns the end of main() into a process exit code:
\* return -> 0, SystemExit(int) -> the int, SystemExit(str) -> 1, an
\* exception that nothing catches -> 1
Return == [kind |-> "return", code |-> 0]
SystemExitInt(n) == [kind |-> "int", code |-> n]
SystemExitStr == [kind |-> "str", code |-> 0]
Uncaught == [kind |-> "exception", code |-> 0]
NotExited == [kind |-> "running", code |-> 0]

ExitCode(e) ==
    CASE e.kind = "return"    -> 0
      [] e.kind = "int"       -> e.code
      [] e.kind = "str"       -> 1
      [] e.kind = "exception" -> 1


\* ---------------------------------------------------------------------
\* Command lines, file system domain, Job outcomes
\* ---------------------------------------------------------------------
INPUT == P("d1", <<"daily_input", ".csv">>)

OUT_CSV == P("d1", <<"out", ".csv">>)
OUT_PLAIN == P("d2", <<"out">>)
\* a --top20 path that carries the fallback marker already
TOP_MARKED == P("d1", <<"out", FALLBACK_TAG, ".csv">>)

Outputs == {OUT_CSV, OUT_PLAIN}

PRECHECK_TOP20 == <<"top20_precheck", ".csv">>

MkArgs(o, t, dry_run, self_check, precheck) ==
    [mode |-> "pre", input |-> INPUT, output |-> o, top20 |-> t,
     dry_run |-> dry_run, self_check |-> self_check, precheck |-> precheck]

\* the command lines the orchestrator is invoked with
ArgSets ==
    { MkArgs(OUT_CSV, NoPath, FALSE, FALSE, FALSE),
      MkArgs(OUT_CSV, TOP_MARKED, FALSE, FALSE, FALSE),
      MkArgs(OUT_CSV, NoPath, TRUE, FALSE, FALSE),
      MkArgs(OUT_PLAIN, NoPath, FALSE, FALSE, TRUE) }

\* top20_path_primary after the precheck block
top20_path_primary_of(a) ==
    IF a.precheck /\ a.top20 = NoPath
    THEN with_name(a.output, PRECHECK_TOP20) ELSE a.top20

PrimaryArtifacts ==
    ({a.output : a \in ArgSets} \cup {top20_path_primary_of(a) : a \in ArgSets})
        \ {NoPath}

FsPaths ==
    {INPUT} \cup PrimaryArtifacts
            \cup {tagged_path(a, FALLBACK_TAG) : a \in PrimaryArtifacts}

StatusDirs == {Parent(o) : o \in Outputs}

RUN_STATUS_TXT(d) == P(d, <<"RUN_STATUS", ".txt">>)

StatusPaths ==
    {RUN_STATUS_TXT(d) : d \in StatusDirs}
      \cup {with_suffix(RUN_STATUS_TXT(d), ".json") : d \in StatusDirs}

\* what one Job process does before it exits: its exit code and what it
\* wrote to --output and --top20 ("keep": it did not write the file)
JobOutcomes ==
    { [rc |-> 0, out |-> "v1",    top |-> "v1"],
      [rc |-> 0, out |-> "v2",    top |-> "v1"],
      [rc |-> 0, out |-> "v1",    top |-> "v2"],
      [rc |-> 0, out |-> "keep",  top |-> "keep"],
      [rc |-> 0, out |-> "bad",   top |-> "v1"],
      [rc |-> 1, out |-> "keep",  top |-> "keep"] }

\* the outcomes of the fallback Job, a program outside this code base
FallbackOutcomes ==
    { [rc |-> 0, out |-> "v1",    top |-> "v1"],
      [rc |-> 0, out |-> "v2",    top |-> "v1"],
      [rc |-> 0, out |-> "empty", top |-> "v1"],
      [rc |-> 1, out |-> "keep",  top |-> "keep"] }

\* the primary Job reads --input first and fails without writing when it
\* is missing
JobOutcomesFor(fsv, input_path) ==
    IF Exists(fsv[input_path]) THEN JobOutcomes
    ELSE { [rc |-> 1, out |-> "keep", top |-> "keep"] }

ApplyJob(fsv, output_path, top20_path, o) ==
    [q \in FsPaths |->
        IF q = top20_path /\ o.top # "keep" THEN o.top
        ELSE IF q = output_path /\ o.out # "keep" THEN o.out
        ELSE fsv[q]]

\* ---------------------------------------------------------------------
\* State
\* ---------------------------------------------------------------------
VARIABLES
    fs,        \* input and artifact files: path -> content
    status,    \* RUN_STATUS.txt / RUN_STATUS.json files: path -> document
    summary,   \* rows of run_summary.csv
    now,       \* wall clock, in days
    pc,        \* position of the orchestrator process
    run,       \* locals of main()
    exit,      \* how the last process ended
    launches,  \* Job processes launched by the current run
    writes,    \* _write_run_status calls of the current run
    status0,   \* the status files as they were when the current run began
    nRuns,     \* invocations so far
    last,      \* result, core and exit code of the invocation before
    wpc,       \* SpecWrite: position inside _write_run_status
    wreq,      \* SpecWrite: the call in progress
    wdone,     \* calls of a writer completed or interrupted so far
    aw,        \* SpecAtomic: locals of _atomic_write_text and its two files
    kc,        \* SpecKey: the parameters of two runs and their RunKeys
    ap,        \* SpecShared: the _append_run_summary calls of two orchestrators
    hc,        \* the last health check: arguments, outcome, alert file
    rp,        \* run_pipeline of daily_auto_run_final.py: position, files, exit
    pst        \* PIPELINE_STATUS files and the update_pipeline_status processes

vars == <<fs, status, summary, now, pc, run, exit, launches, writes,
          status0, nRuns, last, wpc, wreq, wdone, aw, kc, ap, hc, rp, pst>>

worldVars == <<fs, status, summary, now>>
writeVars == <<wpc, wreq, wdone>>
\* the variables of the specifications of single functions
sideVars == <<aw, kc, ap, hc, rp, pst>>
exceptAw == <<kc, ap, hc, rp, pst>>
exceptKc == <<aw, ap, hc, rp, pst>>
exceptAp == <<aw, kc, hc, rp, pst>>
exceptHc == <<aw, kc, ap, rp, pst>>
exceptRp == <<aw, kc, ap, hc, pst>>
exceptPst == <<aw, kc, ap, hc, rp>>

\* no RunKey has been computed
NoKeys == [a |-> <<>>, b |-> <<>>, key_a |-> <<>>, key_b |-> <<>>]

\* neither orchestrator is inside _append_run_summary
NoAppends ==
    [p \in {"A", "B"} |-> [pc |-> "idle", rows |-> <<>>, payload |-> EmptyPayload, appended |-> <<>>]]

\* no health check has run and HEALTH_ALERT.txt does not exist
NoHealth ==
    [ n |-> 0,
      args |-> [min_samples |-> 0, window_days |-> 0, recent_hours |-> 0, max_rows |-> 0],
      exit |-> NotExited, alert |-> FALSE, alert_before |-> FALSE,
      evaluated |-> 0, fb_cnt |-> 0, failed_at |-> {} ]

\* run_pipeline has not been called; no output and no top artifact on disk
NoPipeline ==
    [ pc |-> "idle", top |-> FALSE, fb_dir |-> FALSE, core |-> "",
      out |-> "absent", topf |-> "absent", exit |-> NotExited,
      failed |-> {}, completed |-> {}, read_ok |-> TRUE ]

\* the stages that update_pipeline_status is called for
StageNames == {"fetch", "prepare"}

\* the dict {} that _load_json returns for a missing file.  stages[s] is
\* the status of the entry doc[s], "absent" without one; rid[s] (the
\* run_id under which the entry was written) and by (the branch of main
\* that built the document) are history, not part of the JSON text
NoDoc ==
    [ run_id |-> "", overall_status |-> "",
      stages |-> [s \in StageNames |-> "absent"],
      rid |-> [s \in StageNames |-> ""], by |-> "" ]

\* no PIPELINE_STATUS file exists and no update_pipeline_status process
\* is running
NoStatus ==
    [ json_exists |-> FALSE, json |-> NoDoc,
      tmp_exists |-> FALSE, tmp |-> NoDoc,
      txt_exists |-> FALSE, txt |-> NoDoc,
      proc |-> [p \in {"A", "B"} |->
                  [pc |-> "idle", stage |-> "", doc |-> NoDoc, i |-> 0,
                   recorded |-> {}]] ]

\* _atomic_write_text has not been called
NoCall ==
    [ pc |-> "idle", i |-> 0, text |-> "", path |-> "absent",
      path0 |-> "absent", tmp |-> "absent", last_err |-> "none",
      errs |-> <<>>, slept |-> <<>> ]

NoRun ==
    [ args |-> [mode |-> "", input |-> NoPath, output |-> NoPath,
                top20 |-> NoPath, dry_run |-> FALSE, self_check |-> FALSE,
                precheck |-> FALSE],
      primary_script_exists |-> FALSE, fallback_script_exists |-> FALSE,
      top20_path_primary |-> NoPath, input_sha256 |-> "",
      run_key_primary |-> NoKey, prev_primary |-> EmptyPayload,
      rc1 |-> None, fallback_reason |-> "",
      output_path_fb |-> NoPath, top20_path_fb |-> NoPath,
      run_key_fb |-> NoKey, prev_fb |-> EmptyPayload, rc2 |-> None ]

NoLast == [result |-> "", used_core |-> "", stability |-> FALSE,
           primary_failed |-> FALSE, code |-> 0]

\* what the run that just ended looks like to the caller and to a reader
\* of the status document it wrote
Ended ==
    LET pl == IF writes = <<>> THEN EmptyPayload
              ELSE writes[Len(writes)].payload
    IN  [ result |-> pl.result, used_core |-> pl.used_core,
          stability |-> \E c \in {EXIT_OUTPUT_CHANGED, EXIT_TOP20_CHANGED} :
                           StabilityMsg(c) \in {pl.primary_error, pl.fallback_error},
          primary_failed |-> run.fallback_reason # "",
          code |-> ExitCode(exit) ]

NoReq == [path |-> NoPath, payload |-> EmptyPayload, before |-> <<>>,
          ledger |-> <<>>]

Init ==
    /\ fs = [q \in FsPaths |-> "absent"]
    /\ status = [q \in StatusPaths |-> AbsentDoc]
    /\ summary = <<>>
    /\ now = 0
    /\ pc = "idle"
    /\ run = NoRun
    /\ exit = NotExited
    /\ launches = <<>>
    /\ writes = <<>>
    /\ status0 = status
    /\ nRuns = 0
    /\ last = NoLast
    /\ wpc = "idle"
    /\ wreq = NoReq
    /\ wdone = 0
    /\ aw = NoCall
    /\ kc = NoKeys
    /\ ap = NoAppends
    /\ hc = NoHealth
    /\ rp = NoPipeline
    /\ pst = NoStatus


\* ---------------------------------------------------------------------
\* The orchestrator: main()
\* ---------------------------------------------------------------------
\* as _write_run_status, without the call of _append_run_summary
WriteRunStatus_without_summary(w0, status_path, pl) ==
    /\ status' = [status EXCEPT ![status_path] = CompleteDoc(pl),
                                ![with_suffix(status_path, ".json")] = CompleteDoc(pl)]
    /\ summary' = summary
    /\ writes' = Append(w0, [path |-> status_path, payload |-> pl])

\* _write_run_status: RUN_STATUS.txt, RUN_STATUS.json, then the summary
WriteRunStatus(w0, status_path, pl) ==
    /\ status' = [status EXCEPT ![status_path] = CompleteDoc(pl),
                                ![with_suffix(status_path, ".json")] = CompleteDoc(pl)]
    /\ summary' = append_run_summary(summary, pl, KEEP_DAYS, now)
    /\ writes' = Append(w0, [path |-> status_path, payload |-> pl])

\* _write_run_status raises OSError when it opens RUN_STATUS.txt: nothing
\* is written
WriteRunStatusRaises(w0) ==
    /\ writes' = w0
    /\ UNCHANGED <<status, summary>>

\* in how many of the _write_run_status calls of one step the write
\* raises, counted from the first call of the step; a step makes two calls
\* at most
WriteFailures == {0, 1, 2}

\* as Launch, every child process being started from the primary script
Launch_primary_script_only(core, output_path, top20_path) ==
    [core |-> "PRIMARY", output |-> output_path, top20 |-> top20_path]

\* one call of _run_subprocess: the child process started for a tier
Launch(core, output_path, top20_path) ==
    [core |-> core, output |-> output_path, top20 |-> top20_path]

\* as the block for a missing primary script, returning after the record
\* is written
primary_script_missing_returns(status_path, pl, r) ==
    /\ WriteRunStatus(<<>>, status_path, pl)
    /\ run' = r
    /\ launches' = <<>>
    /\ pc' = "done"
    /\ exit' = Return

\* the primary script is missing: the record is written and main() raises
\* SystemExit(err), err being a text
primary_script_missing(status_path, pl, r) ==
    /\ WriteRunStatus(<<>>, status_path, pl)
    /\ run' = r
    /\ launches' = <<>>
    /\ pc' = "done"
    /\ exit' = SystemExitStr

\* main() from argument parsing to the launch of the primary Job;
\* ps: whether the primary script exists; wf: write failures
Start(a, ps, wf) ==
    /\ pc \in {"idle", "done"}
    /\ nRuns < MaxRuns
    /\ LET status_path_primary == RUN_STATUS_TXT(Parent(a.output))
           create == (a.precheck \/ (a.self_check /\ ~a.dry_run))
                        /\ ~Exists(fs[a.input])
           fs1 == IF create THEN [fs EXCEPT ![a.input] = "mintest"] ELSE fs
           top1 == top20_path_primary_of(a)
           input_sha256 == IF Exists(fs1[a.input])
                           THEN sha256_file(fs1[a.input]) ELSE ""
           run_key_primary == stable_key(a.mode, a.input, input_sha256, top1)
           problems == ~ps \/ ~Exists(fs1[a.input])
           r1 == [NoRun EXCEPT !.args = a, !.primary_script_exists = ps,
                               !.top20_path_primary = top1,
                               !.input_sha256 = input_sha256,
                               !.run_key_primary = run_key_primary]
           Payload(result, primary_error) ==
               StatusPayload(fs1, now, a.mode, run_key_primary, a.input,
                             input_sha256, a.output, top1, result, "NONE",
                             None, None, primary_error, "")
       IN  /\ nRuns' = nRuns + 1
           /\ last' = IF nRuns = 0 THEN NoLast ELSE Ended
           /\ status0' = status
           /\ fs' = fs1
           /\ IF (a.dry_run \/ ~ps) /\ wf > 0 THEN
                 /\ WriteRunStatusRaises(<<>>)
                 /\ run' = r1
                 /\ launches' = <<>>
                 /\ pc' = "done"
                 /\ exit' = Uncaught
              ELSE IF a.dry_run THEN
                 /\ WriteRunStatus(<<>>, status_path_primary,
                        IF problems THEN Payload("FAILED", "DRY_RUN failed")
                        ELSE Payload("SUCCESS", "DRY_RUN: OK (no execution)"))
                 /\ run' = r1
                 /\ launches' = <<>>
                 /\ pc' = "done"
                 /\ exit' = IF problems THEN SystemExitInt(EXIT_DRY_RUN_FAILED) ELSE Return
              ELSE IF ~ps THEN
                 primary_script_missing(
                     status_path_primary,
                     Payload("FAILED", "Primary script not found"),
                     [r1 EXCEPT !.prev_primary =
                         read_prev_status_json(
                            status[with_suffix(status_path_primary, ".json")])])
              ELSE
                 /\ wf = 0
                 /\ run' = [r1 EXCEPT !.prev_primary =
                              read_prev_status_json(
                                 status[with_suffix(status_path_primary, ".json")])]
                 /\ launches' = <<Launch("PRIMARY", a.output, top1)>>
                 /\ writes' = <<>>
                 /\ pc' = "primary_running"
                 /\ exit' = NotExited
                 /\ UNCHANGED <<status, summary>>
    /\ UNCHANGED <<now, writeVars, sideVars>>

\* as the block for a missing fallback script, exiting without a record
fallback_script_missing_no_record(status_path, pl, r) ==
    /\ UNCHANGED <<status, summary, writes>>
    /\ run' = r
    /\ pc' = "done"
    /\ exit' = SystemExitInt(EXIT_FALLBACK_MISSING)
    /\ UNCHANGED launches

\* the fallback script is missing: the record is written at the primary
\* location and main() raises SystemExit(2)
fallback_script_missing(status_path, pl, r) ==
    /\ WriteRunStatus(writes, status_path, pl)
    /\ run' = r
    /\ pc' = "done"
    /\ exit' = SystemExitInt(EXIT_FALLBACK_MISSING)
    /\ UNCHANGED launches

\* as fallback_reason, left empty when the primary Job exits non-zero
fallback_reason_of_invalid_only(rc1) ==
    IF rc1 = 0 THEN "PRIMARY OUTPUT INVALID" ELSE ""

\* fallback_reason: why the primary attempt was given up
fallback_reason_of(rc1) ==
    IF rc1 = 0 THEN "PRIMARY OUTPUT INVALID" ELSE "PRIMARY FAILED"

\* the primary Job exits with outcome o, and main() runs on to the end
\* of the run or to the launch of the fallback Job; fbs: whether the
\* fallback script exists; wf: write failures
PrimaryReturns(o, fbs, wf) ==
    /\ pc = "primary_running"
    /\ o \in JobOutcomesFor(fs, run.args.input)
    /\ LET a == run.args
           rc1 == o.rc
           top1 == run.top20_path_primary
           fs1 == ApplyJob(fs, a.output, top1, o)
           status_path_primary == RUN_STATUS_TXT(Parent(a.output))
           valid == /\ rc1 = 0
                    /\ check_outputs(fs1, a.output, top1)
                    /\ assert_output_schema(fs1, a.output)
                    /\ ~prev_get_raises(run.prev_primary)
           st == stability_compare(run.prev_primary, run.run_key_primary,
                                   fs1, a.output, top1)
           fallback_reason == fallback_reason_of(rc1)
           \* failures left for the calls after the try block
           wf_rest == IF valid THEN wf - 1 ELSE wf
           output_path_fb == tagged_path(a.output, FALLBACK_TAG)
           top20_path_fb == IF top1 # NoPath
                            THEN tagged_path(top1, FALLBACK_TAG) ELSE NoPath
           status_path_fb == RUN_STATUS_TXT(Parent(output_path_fb))
           Payload(result, used_core, primary_error, fallback_error) ==
               StatusPayload(fs1, now, a.mode, run.run_key_primary, a.input,
                             run.input_sha256, a.output, top1, result,
                             used_core, Some(rc1), None,
                             primary_error, fallback_error)
       IN  /\ fs' = fs1
           /\ IF valid /\ wf = 0 /\ st # 0 THEN
                 /\ WriteRunStatus(writes, status_path_primary,
                        Payload("FAILED", "PRIMARY", StabilityMsg(st), ""))
                 /\ run' = [run EXCEPT !.rc1 = Some(rc1)]
                 /\ pc' = "done"
                 /\ exit' = SystemExitInt(st)
                 /\ UNCHANGED launches
              ELSE IF valid /\ wf = 0 THEN
                 /\ WriteRunStatus(writes, status_path_primary,
                        Payload("SUCCESS", "PRIMARY", "", ""))
                 /\ run' = [run EXCEPT !.rc1 = Some(rc1)]
                 /\ pc' = "done"
                 /\ exit' = Return
                 /\ UNCHANGED launches
              ELSE IF ~fbs /\ wf_rest > 0 THEN
                 /\ WriteRunStatusRaises(writes)
                 /\ run' = [run EXCEPT !.rc1 = Some(rc1),
                                       !.fallback_script_exists = fbs,
                                       !.fallback_reason = fallback_reason]
                 /\ pc' = "done"
                 /\ exit' = Uncaught
                 /\ UNCHANGED launches
              ELSE IF ~fbs THEN
                 fallback_script_missing(
                     status_path_primary,
                     Payload("FAILED", "NONE", "", "Fallback script not found"),
                     [run EXCEPT !.rc1 = Some(rc1),
                                 !.fallback_script_exists = fbs,
                                 !.fallback_reason = fallback_reason])
              ELSE
                 /\ wf_rest = 0
                 /\ run' = [run EXCEPT
                        !.rc1 = Some(rc1),
                        !.fallback_script_exists = fbs,
                        !.fallback_reason = fallback_reason,
                        !.output_path_fb = output_path_fb,
                        !.top20_path_fb = top20_path_fb,
                        !.run_key_fb = stable_key(a.mode, a.input,
                                                  run.input_sha256, top20_path_fb),
                        !.prev_fb = read_prev_status_json(
                                       status[with_suffix(status_path_fb, ".json")])]
                 /\ launches' = Append(launches,
                                   Launch("FALLBACK", output_path_fb, top20_path_fb))
                 /\ pc' = "fallback_running"
                 /\ UNCHANGED <<status, summary, writes, exit>>
    /\ UNCHANGED <<now, status0, nRuns, last, writeVars, sideVars>>

\* the fallback Job exits with outcome o, and main() runs on to the end;
\* wf: write failures
FallbackReturns(o, wf) ==
    /\ pc = "fallback_running"
    /\ o \in FallbackOutcomes
    /\ LET a == run.args
           rc1 == run.rc1[1]
           rc2 == o.rc
           fs1 == ApplyJob(fs, run.output_path_fb, run.top20_path_fb, o)
           status_path_fb == RUN_STATUS_TXT(Parent(run.output_path_fb))
           valid == /\ rc2 = 0
                    /\ check_outputs(fs1, run.output_path_fb, run.top20_path_fb)
                    /\ assert_output_schema(fs1, run.output_path_fb)
                    /\ ~prev_get_raises(run.prev_fb)
           st == stability_compare(run.prev_fb, run.run_key_fb, fs1,
                                   run.output_path_fb, run.top20_path_fb)
           Payload(result, used_core, primary_error, fallback_error) ==
               StatusPayload(fs1, now, a.mode, run.run_key_fb, a.input,
                             run.input_sha256, run.output_path_fb,
                             run.top20_path_fb, result, used_core,
                             Some(rc1), Some(rc2), primary_error, fallback_error)
       IN  /\ fs' = fs1
           /\ run' = [run EXCEPT !.rc2 = Some(rc2)]
           /\ IF valid /\ wf = 0 /\ st # 0 THEN
                 /\ WriteRunStatus(writes, status_path_fb,
                        Payload("FAILED", "FALLBACK", "", StabilityMsg(st)))
                 /\ exit' = SystemExitInt(st)
              ELSE IF valid /\ wf = 0 THEN
                 /\ WriteRunStatus(writes, status_path_fb,
                        Payload("SUCCESS", "FALLBACK", run.fallback_reason, ""))
                 /\ exit' = Return
              ELSE IF (IF valid THEN wf - 1 ELSE wf) > 0 THEN
                 /\ WriteRunStatusRaises(writes)
                 /\ exit' = Uncaught
              ELSE
                 /\ WriteRunStatus(writes, status_path_fb,
                        Payload("FAILED", "NONE", run.fallback_reason,
                                "Fallback failed or output invalid"))
                 /\ exit' = SystemExitInt(EXIT_BOTH_FAILED)
    /\ pc' = "done"
    /\ UNCHANGED <<now, launches, status0, nRuns, last, writeVars, sideVars>>

\* between two invocations the input file is replaced or removed
EnvSetInput(c) ==
    /\ pc \in {"idle", "done"}
    /\ nRuns < MaxRuns
    /\ c # fs[INPUT]
    /\ fs' = [fs EXCEPT ![INPUT] = c]
    /\ pc' = "idle"
    /\ UNCHANGED <<status, summary, now, run, exit, launches, writes,
                   status0, nRuns, last, writeVars, sideVars>>

\* the command lines and, for each, whether the primary script exists
StartChoices ==
    {<<a, TRUE>> : a \in ArgSets}
      \cup {<<MkArgs(OUT_CSV, NoPath, FALSE, FALSE, FALSE), FALSE>>}

Next ==
    \/ \E c \in StartChoices : Start(c[1], c[2], 0)
    \/ \E o \in JobOutcomes, fbs \in BOOLEAN : PrimaryReturns(o, fbs, 0)
    \/ \E o \in FallbackOutcomes : FallbackReturns(o, 0)
    \/ EnvSetInput("i1")

Spec == Init /\ [][Next]_vars

\* the --dry_run command lines, with and without --self_check, --precheck
\* and --top20
DryArgSets ==
    { MkArgs(OUT_CSV, t, TRUE, sc, FALSE) : t \in {NoPath, TOP_MARKED}, sc \in BOOLEAN }
      \cup { MkArgs(OUT_PLAIN, NoPath, TRUE, sc, TRUE) : sc \in BOOLEAN }

\* the runs of Spec and dry runs, with the primary script present or
\* not, and with the input file removed between two invocations
NextDry ==
    \/ \E c \in StartChoices : Start(c[1], c[2], 0)
    \/ \E a \in DryArgSets, ps \in BOOLEAN : Start(a, ps, 0)
    \/ \E o \in JobOutcomes, fbs \in BOOLEAN : PrimaryReturns(o, fbs, 0)
    \/ \E o \in FallbackOutcomes : FallbackReturns(o, 0)
    \/ \E c \in {"i1", "absent"} : EnvSetInput(c)

SpecDry == Init /\ [][NextDry]_vars

\* the runs of Spec, with _write_run_status calls that raise
NextPersist ==
    \/ \E c \in StartChoices, wf \in WriteFailures : Start(c[1], c[2], wf)
    \/ \E o \in JobOutcomes, fbs \in BOOLEAN, wf \in WriteFailures :
          PrimaryReturns(o, fbs, wf)
    \/ \E o \in FallbackOutcomes, wf \in WriteFailures : FallbackReturns(o, wf)
    \/ EnvSetInput("i1")

SpecPersist == Init /\ [][NextPersist]_vars

\* the child process of the running tier never exits and never closes its
\* output: _run_subprocess stays in its read loop or in proc.wait(), which
\* is called without a timeout
JobHangs ==
    /\ pc \in {"primary_running", "fallback_running"}
    /\ pc' = IF pc = "primary_running" THEN "primary_hung" ELSE "fallback_hung"
    /\ UNCHANGED <<worldVars, run, exit, launches, writes, status0, nRuns,
                   last, writeVars, sideVars>>

NextLive ==
    \/ \E c \in StartChoices : Start(c[1], c[2], 0)
    \/ \E o \in JobOutcomes, fbs \in BOOLEAN : PrimaryReturns(o, fbs, 0)
    \/ \E o \in FallbackOutcomes : FallbackReturns(o, 0)
    \/ EnvSetInput("i1")
    \/ JobHangs

\* the orchestrators and the Jobs that exit keep running; nothing is
\* assumed of a Job that hangs
SpecLive == Init /\ [][NextLive]_vars /\ WF_vars(Next)

\* the record written by a first run --input d1/daily_input.csv
\* --output d1/out.csv whose primary Job exited 0 and wrote output "v1"
FirstSuccess ==
    LET fs1 == [q \in FsPaths |-> IF q = INPUT THEN "i1"
                                  ELSE IF q = OUT_CSV THEN "v1" ELSE "absent"]
    IN  StatusPayload(fs1, 0, "pre",
                      stable_key("pre", INPUT, sha256_file("i1"), NoPath),
                      INPUT, sha256_file("i1"), OUT_CSV, NoPath,
                      "SUCCESS", "PRIMARY", Some(0), None, "", "")

\* the files, status documents and ledger as that first run leaves them
InitHistory ==
    /\ fs = [q \in FsPaths |-> IF q = INPUT THEN "i1"
                                ELSE IF q = OUT_CSV THEN "v1" ELSE "absent"]
    /\ status = [q \in StatusPaths |->
                   IF Parent(q) = Parent(OUT_CSV)
                   THEN CompleteDoc(FirstSuccess) ELSE AbsentDoc]
    /\ summary = <<SummaryRow(FirstSuccess)>>
    /\ now = 0
    /\ pc = "idle"
    /\ run = NoRun
    /\ exit = NotExited
    /\ launches = <<>>
    /\ writes = <<>>
    /\ status0 = status
    /\ nRuns = 0
    /\ last = NoLast
    /\ wpc = "idle"
    /\ wreq = NoReq
    /\ wdone = 0
    /\ aw = NoCall
    /\ kc = NoKeys
    /\ ap = NoAppends
    /\ hc = NoHealth
    /\ rp = NoPipeline
    /\ pst = NoStatus

\* further runs at a location with a history; between two runs the input
\* file may get new bytes
NextHistory ==
    \/ \E c \in StartChoices : Start(c[1], c[2], 0)
    \/ \E o \in JobOutcomes, fbs \in BOOLEAN : PrimaryReturns(o, fbs, 0)
    \/ \E o \in FallbackOutcomes : FallbackReturns(o, 0)
    \/ \E c \in {"i1", "i2"} : EnvSetInput(c)

SpecHistory == InitHistory /\ [][NextHistory]_vars

\* what a RUN_STATUS.json left by something other than a completed
\* _write_run_status may hold when the orchestrator starts
ForeignDocs == {AbsentDoc, TornDoc, NonObjectDoc}

\* the orchestrator started over status JSON files of any such content
InitPrev ==
    /\ fs = [q \in FsPaths |-> "absent"]
    /\ status \in [StatusPaths -> ForeignDocs]
    /\ \A d \in StatusDirs : status[RUN_STATUS_TXT(d)] = AbsentDoc
    /\ summary = <<>>
    /\ now = 0
    /\ pc = "idle"
    /\ run = NoRun
    /\ exit = NotExited
    /\ launches = <<>>
    /\ writes = <<>>
    /\ status0 = status
    /\ nRuns = 0
    /\ last = NoLast
    /\ wpc = "idle"
    /\ wreq = NoReq
    /\ wdone = 0
    /\ aw = NoCall
    /\ kc = NoKeys
    /\ ap = NoAppends
    /\ hc = NoHealth
    /\ rp = NoPipeline
    /\ pst = NoStatus

SpecPrev == InitPrev /\ [][Next]_vars


\* ---------------------------------------------------------------------
\* _write_run_status at the granularity of its file operations.
\* Path.write_text opens the file for writing, which truncates it, then
\* writes the text and closes it; the process can be interrupted between
\* any two of these operations.
\* ---------------------------------------------------------------------
WRITE_FS == [q \in FsPaths |-> IF q = OUT_CSV THEN "v1" ELSE "absent"]

\* records handed to _write_run_status
WritePayloads ==
    { StatusPayload(WRITE_FS, 0, "pre",
                    stable_key("pre", INPUT, "sha_i1", NoPath), INPUT,
                    "sha_i1", OUT_CSV, NoPath, r[1], r[2], Some(r[3]), None,
                    r[4], "") :
        r \in { <<"SUCCESS", "PRIMARY", 0, "">>,
                <<"FAILED", "PRIMARY", 0,
                  "STABILITY CHECK FAILED: output sha256 changed">>,
                <<"FAILED", "NONE", 1, "">> } }

InitWrite ==
    /\ fs = WRITE_FS
    /\ status = [q \in StatusPaths |-> AbsentDoc]
    /\ summary = <<>>
    /\ now = 0
    /\ pc = "idle"
    /\ run = NoRun
    /\ exit = NotExited
    /\ launches = <<>>
    /\ writes = <<>>
    /\ status0 = status
    /\ nRuns = 0
    /\ last = NoLast
    /\ wpc = "idle"
    /\ wreq = NoReq
    /\ wdone = 0
    /\ aw = NoCall
    /\ kc = NoKeys
    /\ ap = NoAppends
    /\ hc = NoHealth
    /\ rp = NoPipeline
    /\ pst = NoStatus

runVars == <<pc, run, exit, launches, writes, status0, nRuns, last>>

\* status_path.write_text(...): open(status_path, "w")
WOpenTxt(status_path, pl) ==
    /\ wpc = "idle"
    /\ wdone < MaxWrites
    /\ wreq' = [path |-> status_path, payload |-> pl, before |-> status,
                ledger |-> summary]
    /\ status' = [status EXCEPT ![status_path] = TornDoc]
    /\ wpc' = "txt_open"
    /\ UNCHANGED <<fs, summary, now, wdone, runVars, sideVars>>

\* status_path.write_text(...): write and close
WCloseTxt ==
    /\ wpc = "txt_open"
    /\ status' = [status EXCEPT ![wreq.path] = CompleteDoc(wreq.payload)]
    /\ wpc' = "txt_written"
    /\ UNCHANGED <<fs, summary, now, wreq, wdone, runVars, sideVars>>

\* status_json_path.write_text(...): open(status_json_path, "w")
WOpenJson ==
    /\ wpc = "txt_written"
    /\ status' = [status EXCEPT ![with_suffix(wreq.path, ".json")] = TornDoc]
    /\ wpc' = "json_open"
    /\ UNCHANGED <<fs, summary, now, wreq, wdone, runVars, sideVars>>

\* status_json_path.write_text(...): write and close
WCloseJson ==
    /\ wpc = "json_open"
    /\ status' = [status EXCEPT ![with_suffix(wreq.path, ".json")] =
                                   CompleteDoc(wreq.payload)]
    /\ wpc' = "json_written"
    /\ UNCHANGED <<fs, summary, now, wreq, wdone, runVars, sideVars>>

\* _append_run_summary: the rows are read, the new row is appended, the
\* rows to keep are selected, then summary_csv_path.open("w") truncates
\* the file
WOpenSummary ==
    /\ wpc = "json_written"
    /\ summary' = <<>>
    /\ wpc' = "summary_open"
    /\ UNCHANGED <<fs, status, now, wreq, wdone, runVars, sideVars>>

\* _append_run_summary: the header and the kept rows are written, the file
\* is closed; return
WSummary ==
    /\ wpc = "summary_open"
    /\ summary' = append_run_summary(wreq.ledger, wreq.payload, KEEP_DAYS, now)
    /\ wpc' = "idle"
    /\ wdone' = wdone + 1
    /\ UNCHANGED <<fs, status, now, wreq, runVars, sideVars>>

\* the orchestrator process is killed inside _write_run_status
WInterrupt ==
    /\ wpc # "idle"
    /\ wpc' = "idle"
    /\ wdone' = wdone + 1
    /\ UNCHANGED <<fs, status, summary, now, wreq, runVars, sideVars>>

NextWrite ==
    \/ \E d \in StatusDirs, pl \in WritePayloads : WOpenTxt(RUN_STATUS_TXT(d), pl)
    \/ WCloseTxt
    \/ WOpenJson
    \/ WCloseJson
    \/ WOpenSummary
    \/ WSummary
    \/ WInterrupt

SpecWrite == InitWrite /\ [][NextWrite]_vars


\* ---------------------------------------------------------------------
\* _append_run_summary over days: the ledger that an earlier version of
\* the tool left behind, appends, and the wall clock moving on.
\* ---------------------------------------------------------------------
\* a row whose timestamp column is not ISO text
LegacyRow ==
    [SummaryRow(CHOOSE pl \in WritePayloads : pl.result = "SUCCESS")
        EXCEPT !["timestamp"] = LEGACY_TS]

InitialLedgers == {<<>>, <<LegacyRow>>}

InitLedger ==
    /\ fs = WRITE_FS
    /\ status = [q \in StatusPaths |-> AbsentDoc]
    /\ summary \in InitialLedgers
    /\ now = 0
    /\ pc = "idle"
    /\ run = NoRun
    /\ exit = NotExited
    /\ launches = <<>>
    /\ writes = <<>>
    /\ status0 = status
    /\ nRuns = 0
    /\ last = NoLast
    /\ wpc = "idle"
    /\ wreq = NoReq
    /\ wdone = 0
    /\ aw = NoCall
    /\ kc = NoKeys
    /\ ap = NoAppends
    /\ hc = NoHealth
    /\ rp = NoPipeline
    /\ pst = NoStatus

\* _append_run_summary(summary_csv_path, payload, keep_days=30) with the
\* payload that _write_run_status builds at this instant
AppendRunSummary(pl) ==
    /\ wdone < MaxAppends
    /\ LET payload == [pl EXCEPT !.timestamp = isoformat(now)]
       IN  /\ summary' = append_run_summary(summary, payload, KEEP_DAYS, now)
           /\ wreq' = [NoReq EXCEPT !.payload = payload]
    /\ wdone' = wdone + 1
    /\ UNCHANGED <<fs, status, now, wpc, runVars, sideVars>>

\* days between two runs
TickDays == {15, 16}

\* dt.datetime.now() moves on
Tick(d) ==
    /\ now + d <= MaxDay
    /\ now' = now + d
    /\ UNCHANGED <<fs, status, summary, writeVars, runVars, sideVars>>

NextLedger ==
    \/ \E pl \in WritePayloads : AppendRunSummary(pl)
    \/ \E d \in TickDays : Tick(d)

SpecLedger == InitLedger /\ [][NextLedger]_vars


\* ---------------------------------------------------------------------
\* Two orchestrators, A with output d1/out.csv and B with output d2/out,
\* of one deployment: both call _append_run_summary on base_dir's
\* run_summary.csv
\* ---------------------------------------------------------------------
\* the payload orchestrator p hands to _append_run_summary
SharedPayload(p, result) ==
    LET out == IF p = "A" THEN OUT_CSV ELSE OUT_PLAIN
        fsv == [q \in FsPaths |-> IF q = out THEN "v1" ELSE "absent"]
    IN  StatusPayload(fsv, now, "pre",
                      stable_key("pre", INPUT, "sha_i1", NoPath), INPUT,
                      "sha_i1", out, NoPath, result, "PRIMARY", Some(0),
                      None, "", "")

InitShared ==
    /\ fs = [q \in FsPaths |-> "absent"]
    /\ status = [q \in StatusPaths |-> AbsentDoc]
    /\ summary = <<>>
    /\ now = 0
    /\ pc = "idle"
    /\ run = NoRun
    /\ exit = NotExited
    /\ launches = <<>>
    /\ writes = <<>>
    /\ status0 = status
    /\ nRuns = 0
    /\ last = NoLast
    /\ wpc = "idle"
    /\ wreq = NoReq
    /\ wdone = 0
    /\ aw = NoCall
    /\ kc = NoKeys
    /\ ap = NoAppends
    /\ hc = NoHealth
    /\ rp = NoPipeline
    /\ pst = NoStatus

\* orchestrator p enters _append_run_summary and reads the rows of the
\* ledger file
AppendRead(p, result) ==
    /\ ap[p].pc = "idle"
    /\ wdone < MaxAppends
    /\ wdone' = wdone + 1
    /\ ap' = [ap EXCEPT ![p].pc = "read", ![p].rows = summary,
                        ![p].payload = SharedPayload(p, result)]
    /\ UNCHANGED <<worldVars, runVars, wpc, wreq, exceptAp>>

\* orchestrator p appends its row to the rows it read, filters them and
\* rewrites the ledger file
AppendWrite(p) ==
    /\ ap[p].pc = "read"
    /\ summary' = append_run_summary(ap[p].rows, ap[p].payload, KEEP_DAYS, now)
    /\ ap' = [ap EXCEPT ![p].pc = "idle", ![p].rows = <<>>,
                        ![p].appended = Append(ap[p].appended,
                                               SummaryRow(ap[p].payload))]
    /\ UNCHANGED <<fs, status, now, runVars, writeVars, exceptAp>>

NextShared ==
    \/ \E p \in {"A", "B"}, result \in {"SUCCESS", "FAILED"} : AppendRead(p, result)
    \/ \E p \in {"A", "B"} : AppendWrite(p)

SpecShared == InitShared /\ [][NextShared]_vars


\* ---------------------------------------------------------------------
\* check_health.py (and its copy app/ops/health_gate.py) reading the
\* ledger that the orchestrator's runs append to.  Time in days.
\* ---------------------------------------------------------------------
\* --fb_ratio, default 0.40, in percent
FB_RATIO_PCT == 40

\* the command lines of the health check
HealthArgs ==
    [ min_samples : {0, 1, 2}, window_days : {0, 2},
      recent_hours : {0, 48}, max_rows : {0, 1} ]

\* the payload of a run that ends at the instant ts with the given result
HealthPayload(ts, result, used_core) ==
    LET fsv == [q \in FsPaths |-> IF q = OUT_CSV THEN "v1" ELSE "absent"]
    IN  StatusPayload(fsv, ts, "pre",
                      stable_key("pre", INPUT, "sha_i1", NoPath), INPUT,
                      "sha_i1", OUT_CSV, NoPath, result, used_core,
                      IF used_core = "NONE" THEN None ELSE Some(0),
                      None, "", "")

\* seq[-n:] for n > 0
LastRows(seq, n) ==
    IF n >= Len(seq) THEN seq ELSE SubSeq(seq, Len(seq) - n + 1, Len(seq))

\* main() of check_health.py on the ledger file, at the instant nowv,
\* with HEALTH_ALERT.txt present or not: the exit, the alert file
\* afterwards, the SUCCESS rows evaluated and the FALLBACK rows among them
health_main(file_rows, args, nowv, alert) ==
    LET rows == IF args.max_rows > 0 THEN LastRows(file_rows, args.max_rows)
                ELSE file_rows
        Ts(r) == parse_ts(r["timestamp"])
        recent_hours == IF args.recent_hours > 1 THEN args.recent_hours ELSE 1
        window_days == IF args.window_days > 1 THEN args.window_days ELSE 1
        is_success(r) == r["result"] = "SUCCESS"
        FailedRecent(r) == /\ Ts(r) # None
                           /\ 24 * (nowv - Ts(r)[1]) <= recent_hours
                           /\ r["result"] = "FAILED"
        InWindow(r) == /\ Ts(r) # None
                       /\ nowv - Ts(r)[1] <= window_days
                       /\ is_success(r)
        in_window == SelectSeq(rows, InWindow)
        recent_succ == LastRows(SelectSeq(rows, is_success),
                                IF args.min_samples > 1 THEN args.min_samples ELSE 1)
        succ_in_window == IF Len(in_window) < args.min_samples
                          THEN recent_succ ELSE in_window
        fb_cnt == Cardinality({i \in 1..Len(succ_in_window) :
                                  succ_in_window[i]["used_core"] = "FALLBACK"})
        Out(e, a) == [exit |-> e, alert |-> a,
                      evaluated |-> Len(succ_in_window), fb_cnt |-> fb_cnt]
    IN  IF rows = <<>> THEN Out(SystemExitInt(30), TRUE)
        ELSE IF \E i \in 1..Len(rows) : FailedRecent(rows[i])
             THEN Out(SystemExitInt(31), TRUE)
        ELSE IF Len(succ_in_window) >= args.min_samples
             THEN IF Len(succ_in_window) = 0
                  THEN Out(Uncaught, alert)       \* fb_cnt / 0: ZeroDivisionError
                  ELSE IF fb_cnt * 100 > FB_RATIO_PCT * Len(succ_in_window)
                       THEN Out(SystemExitInt(32), TRUE)
                       ELSE Out(SystemExitInt(0), FALSE)
        ELSE Out(SystemExitInt(0), FALSE)

InitHealth ==
    /\ fs = WRITE_FS
    /\ status = [q \in StatusPaths |-> AbsentDoc]
    /\ summary \in InitialLedgers
    /\ now = 0
    /\ pc = "idle"
    /\ run = NoRun
    /\ exit = NotExited
    /\ launches = <<>>
    /\ writes = <<>>
    /\ status0 = status
    /\ nRuns = 0
    /\ last = NoLast
    /\ wpc = "idle"
    /\ wreq = NoReq
    /\ wdone = 0
    /\ aw = NoCall
    /\ kc = NoKeys
    /\ ap = NoAppends
    /\ hc = NoHealth
    /\ rp = NoPipeline
    /\ pst = NoStatus

\* days that pass before the next run or health check
HealthDays == {0, 1, 3}

\* the results and cores of the rows that runs append
HealthRuns == {<<"SUCCESS", "PRIMARY">>, <<"SUCCESS", "FALLBACK">>, <<"FAILED", "NONE">>}

\* d days later an orchestrator run ends and appends its row
HealthAppend(d, r) ==
    /\ wdone < MaxAppends
    /\ wdone' = wdone + 1
    /\ now' = now + d
    /\ summary' = append_run_summary(summary, HealthPayload(now', r[1], r[2]),
                                     KEEP_DAYS, now')
    /\ hc' = [hc EXCEPT !.failed_at = IF r[1] = "FAILED" THEN @ \cup {now'} ELSE @]
    /\ UNCHANGED <<fs, status, runVars, wpc, wreq, exceptHc>>

\* d days later the health check runs with the command line args
HealthCheck(d, args) ==
    /\ wdone < MaxAppends
    /\ wdone' = wdone + 1
    /\ now' = now + d
    /\ LET h == health_main(summary, args, now', hc.alert)
       IN  hc' = [hc EXCEPT !.n = @ + 1, !.args = args, !.exit = h.exit,
                            !.alert_before = hc.alert, !.alert = h.alert,
                            !.evaluated = h.evaluated, !.fb_cnt = h.fb_cnt]
    /\ UNCHANGED <<fs, status, summary, runVars, wpc, wreq, exceptHc>>

NextHealth ==
    \/ \E d \in HealthDays, r \in HealthRuns : HealthAppend(d, r)
    \/ \E d \in HealthDays, args \in HealthArgs : HealthCheck(d, args)

SpecHealth == InitHealth /\ [][NextHealth]_vars


\* ---------------------------------------------------------------------
\* app/ops/update_pipeline_status.py: _atomic_write_text
\* aw.path is the content of the file at the final path, aw.tmp that of
\* the .tmp file next to it; a content is "absent", a complete text, or
\* "torn" for a file opened for writing and not completely written
\* ---------------------------------------------------------------------
\* the default of the parameter retries
RETRIES == 3

\* the delays after a PermissionError, by attempt, in tenths of a second
PERMISSION_DELAYS == <<2, 5, 10>>

\* the delay after any other exception, in tenths of a second
OTHER_DELAY == 2

Min(x, y) == IF x < y THEN x ELSE y

\* as sleep_delay, backing off after every kind of error
sleep_delay_always_backoff(e, i) ==
    PERMISSION_DELAYS[Min(i, 2) + 1]

\* the argument of time.sleep in the handler of exception e raised by
\* attempt i (counted from 0)
sleep_delay(e, i) ==
    IF e = "PermissionError" THEN PERMISSION_DELAYS[Min(i, 2) + 1]
    ELSE OTHER_DELAY

AtomicTexts == {"doc1", "doc2"}
AtomicErrors == {"PermissionError", "OSError"}

\* the statement of the try block that raises
AtomicFailingSteps == {"mkdir", "open", "write", "replace"}

InitAtomic ==
    /\ fs = [q \in FsPaths |-> "absent"]
    /\ status = [q \in StatusPaths |-> AbsentDoc]
    /\ summary = <<>>
    /\ now = 0
    /\ pc = "idle"
    /\ run = NoRun
    /\ exit = NotExited
    /\ launches = <<>>
    /\ writes = <<>>
    /\ status0 = status
    /\ nRuns = 0
    /\ last = NoLast
    /\ wpc = "idle"
    /\ wreq = NoReq
    /\ wdone = 0
    /\ aw \in {[NoCall EXCEPT !.path = c, !.path0 = c] : c \in {"absent", "doc0"}}
    /\ kc = NoKeys
    /\ ap = NoAppends
    /\ hc = NoHealth
    /\ rp = NoPipeline
    /\ pst = NoStatus

\* _atomic_write_text(path, text) is called
AtomicCall(text) ==
    /\ aw.pc \in {"idle", "returned", "raised"}
    /\ wdone < MaxWrites
    /\ wdone' = wdone + 1
    /\ aw' = [aw EXCEPT !.pc = "loop", !.i = 0, !.text = text,
                         !.path0 = aw.path, !.last_err = "none",
                         !.errs = <<>>, !.slept = <<>>]
    /\ UNCHANGED <<worldVars, runVars, wpc, wreq, exceptAw>>

\* one pass of the loop body in which no statement raises: the text is
\* written to the .tmp file, which replaces the final path, and the
\* function returns
AtomicAttemptSucceeds ==
    /\ aw.pc = "loop"
    /\ aw' = [aw EXCEPT !.pc = "returned", !.tmp = "absent",
                         !.path = aw.text]
    /\ UNCHANGED <<worldVars, runVars, writeVars, exceptAw>>

\* one pass of the loop body in which statement step raises e: the
\* handler stores the error and sleeps; after the last pass the stored
\* error is raised
AtomicAttemptFails(step, e) ==
    /\ aw.pc = "loop"
    /\ LET tmp1 == IF step \in {"mkdir", "open"} THEN aw.tmp
                   ELSE IF step = "write" THEN "torn"
                   ELSE aw.text
           i1 == aw.i + 1
       IN  aw' = [aw EXCEPT
                    !.tmp = tmp1,
                    !.last_err = e,
                    !.errs = Append(aw.errs, e),
                    !.slept = Append(aw.slept, sleep_delay(e, aw.i)),
                    !.i = i1,
                    !.pc = IF i1 < RETRIES THEN "loop" ELSE "raised"]
    /\ UNCHANGED <<worldVars, runVars, writeVars, exceptAw>>

NextAtomic ==
    \/ \E text \in AtomicTexts : AtomicCall(text)
    \/ AtomicAttemptSucceeds
    \/ \E step \in AtomicFailingSteps, e \in AtomicErrors :
          AtomicAttemptFails(step, e)

SpecAtomic == InitAtomic /\ [][NextAtomic]_vars


\* ---------------------------------------------------------------------
\* The RunKey of a run: main() from argument parsing to run_key_primary.
\* In the paths of this section the tokens after the first directory may
\* name further directories.
\* ---------------------------------------------------------------------
\* an input file in a directory whose name holds the text "||"
INPUT_SEP == P("d1", <<"daily_input", ".csv", "||", "sha_i1", "||", "d1", "/", "x">>)

TOP == P("d1", <<"top", ".csv">>)

\* a --top20 file in a directory whose name holds the text "||"
TOP_SEP == P("d1", <<"x", "||", "sha_i1", "||", "d1", "/", "top", ".csv">>)

\* command lines and input bytes of the runs whose RunKeys are compared
KeyRuns ==
    [ mode : {"pre", "post"}, input : {INPUT, INPUT_SEP},
      input_bytes : {"i1", "i2"}, output : {OUT_CSV, OUT_PLAIN},
      top20 : {NoPath, TOP, TOP_SEP}, dry_run : {FALSE},
      self_check : {FALSE}, precheck : BOOLEAN ]

\* run_key_primary of the run r
run_key_primary_of(r) ==
    stable_key(r.mode, r.input, sha256_file(r.input_bytes),
               top20_path_primary_of(r))

InitKey ==
    /\ fs = [q \in FsPaths |-> "absent"]
    /\ status = [q \in StatusPaths |-> AbsentDoc]
    /\ summary = <<>>
    /\ now = 0
    /\ pc = "idle"
    /\ run = NoRun
    /\ exit = NotExited
    /\ launches = <<>>
    /\ writes = <<>>
    /\ status0 = status
    /\ nRuns = 0
    /\ last = NoLast
    /\ wpc = "idle"
    /\ wreq = NoReq
    /\ wdone = 0
    /\ aw = NoCall
    /\ kc = NoKeys
    /\ ap = NoAppends
    /\ hc = NoHealth
    /\ rp = NoPipeline
    /\ pst = NoStatus

\* two runs compute their RunKeys
ComputeKeys(ra, rb) ==
    /\ kc = NoKeys
    /\ kc' = [a |-> ra, b |-> rb, key_a |-> run_key_primary_of(ra),
              key_b |-> run_key_primary_of(rb)]
    /\ UNCHANGED <<worldVars, runVars, writeVars, exceptKc>>

NextKey == \E ra \in KeyRuns, rb \in KeyRuns : ComputeKeys(ra, rb)

SpecKey == InitKey /\ [][NextKey]_vars


\* ---------------------------------------------------------------------
\* daily_auto_run_final.py: run_pipeline with the local core and the
\* cores of fallback_core/.  rp.out and rp.topf name the core that
\* wrote the file during this call ("stale": left by an earlier call).
\* ---------------------------------------------------------------------
\* what _read_any finds at --input
PipelineInputs == {"readable", "missing", "unsupported"}

InitPipeline ==
    /\ fs = [q \in FsPaths |-> "absent"]
    /\ status = [q \in StatusPaths |-> AbsentDoc]
    /\ summary = <<>>
    /\ now = 0
    /\ pc = "idle"
    /\ run = NoRun
    /\ exit = NotExited
    /\ launches = <<>>
    /\ writes = <<>>
    /\ status0 = status
    /\ nRuns = 0
    /\ last = NoLast
    /\ wpc = "idle"
    /\ wreq = NoReq
    /\ wdone = 0
    /\ aw = NoCall
    /\ kc = NoKeys
    /\ ap = NoAppends
    /\ hc = NoHealth
    /\ rp = NoPipeline
    /\ pst = NoStatus

\* a file as the next call finds it
Stale(f) == IF f = "absent" THEN "absent" ELSE "stale"

\* main() calls run_pipeline: _read_any, then the local core
RunPipeline(input, top, fb_dir) ==
    /\ rp.pc \in {"idle", "done"}
    /\ wdone < MaxWrites
    /\ wdone' = wdone + 1
    /\ LET r == [NoPipeline EXCEPT !.top = top, !.fb_dir = fb_dir,
                                   !.out = Stale(rp.out), !.topf = Stale(rp.topf)]
       IN  rp' = IF input = "readable"
                 THEN [r EXCEPT !.pc = "load", !.core = "LOCAL"]
                 ELSE [r EXCEPT !.pc = "done", !.exit = Uncaught, !.read_ok = FALSE]
    /\ UNCHANGED <<worldVars, runVars, wpc, wreq, exceptRp>>

\* as the except blocks of run_pipeline, swallowing the failure of
\* fallback_core
core_raised_fallback_swallowed(r) ==
    LET f == [r EXCEPT !.failed = @ \cup {r.core}]
    IN  IF r.core = "LOCAL" /\ r.fb_dir
        THEN [f EXCEPT !.pc = "load", !.core = "FALLBACK"]
        ELSE IF r.core = "LOCAL"
             THEN [f EXCEPT !.pc = "done", !.exit = Uncaught]
             ELSE [f EXCEPT !.pc = "done", !.exit = Return]

\* the except blocks of run_pipeline: the local core raised, so run
\* fallback_core if its directory exists, else raise RuntimeError; the
\* fallback core raised, so raise RuntimeError
core_raised(r) ==
    LET f == [r EXCEPT !.failed = @ \cup {r.core}]
    IN  IF r.core = "LOCAL" /\ r.fb_dir
        THEN [f EXCEPT !.pc = "load", !.core = "FALLBACK"]
        ELSE [f EXCEPT !.pc = "done", !.exit = Uncaught]

\* _run_with_core returned: run_pipeline returns
core_returned(r) ==
    [r EXCEPT !.pc = "done", !.exit = Return, !.completed = @ \cup {r.core}]

\* one step of _run_with_core in the current core: loading the two
\* modules and their names, compute_lights, _write_any, export_top20
CoreStep(ok) ==
    /\ rp.pc \in {"load", "compute", "write", "export"}
    /\ rp' = IF ~ok THEN core_raised(rp)
             ELSE CASE rp.pc = "load"    -> [rp EXCEPT !.pc = "compute"]
                    [] rp.pc = "compute" -> [rp EXCEPT !.pc = "write"]
                    [] rp.pc = "write"   ->
                         LET w == [rp EXCEPT !.out = rp.core]
                         IN  IF rp.top THEN [w EXCEPT !.pc = "export"]
                             ELSE core_returned(w)
                    [] rp.pc = "export"  ->
                         core_returned([rp EXCEPT !.topf = rp.core])
    /\ UNCHANGED <<worldVars, runVars, writeVars, exceptRp>>

NextPipeline ==
    \/ \E input \in PipelineInputs, top \in BOOLEAN, fb_dir \in BOOLEAN : RunPipeline(input, top, fb_dir)
    \/ \E ok \in BOOLEAN : CoreStep(ok)

SpecPipeline == InitPipeline /\ [][NextPipeline]_vars


\* ---------------------------------------------------------------------
\* app/ops/update_pipeline_status.py: main() as load, in-memory update,
\* write of PIPELINE_STATUS.json.tmp, rename onto PIPELINE_STATUS.json,
\* write of PIPELINE_STATUS.txt.  --message and --artifacts_json are
\* left empty.
\* ---------------------------------------------------------------------
\* the command lines
StatusArgs ==
    [ stage : StageNames \cup {"reset"},
      status : {"RUNNING", "SUCCESS", "failed", " "},
      run_id : {"r1", "r2"} ]

\* as _compute_overall, testing for RUNNING before FAILED
compute_overall_running_first(stages) ==
    LET stage_statuses == {stages[k] : k \in DOMAIN stages} \ {"absent", ""}
    IN  IF "RUNNING" \in stage_statuses THEN "RUNNING"
        ELSE IF "FAILED" \in stage_statuses THEN "FAILED"
        ELSE IF stage_statuses # {} THEN "SUCCESS"
        ELSE "RUNNING"

\* _compute_overall over the entries of the document that are dicts with
\* a "status" key, leaving out the empty statuses
compute_overall(stages) ==
    LET stage_statuses == {stages[k] : k \in DOMAIN stages} \ {"absent", ""}
    IN  IF "FAILED" \in stage_statuses THEN "FAILED"
        ELSE IF "RUNNING" \in stage_statuses THEN "RUNNING"
        ELSE IF stage_statuses # {} THEN "SUCCESS"
        ELSE "RUNNING"

\* the document main() builds from the loaded one: a fresh document for
\* the stage "reset", else the loaded document with the new run_id, the
\* stage entry and the overall status
stage_update(doc, args) ==
    LET \* str(args.status).upper().strip()
        st == CASE args.status = "failed" -> "FAILED"
                [] args.status = " "      -> ""
                [] OTHER                  -> args.status
    IN  IF args.stage = "reset"
        THEN [NoDoc EXCEPT !.run_id = args.run_id, !.overall_status = st,
                           !.by = "reset"]
        ELSE LET stages == [doc.stages EXCEPT ![args.stage] = st]
             IN  [ run_id |-> args.run_id,
                   overall_status |-> compute_overall(stages),
                   stages |-> stages,
                   rid |-> [doc.rid EXCEPT ![args.stage] = args.run_id],
                   by |-> "update" ]

InitStatus ==
    /\ fs = [q \in FsPaths |-> "absent"]
    /\ status = [q \in StatusPaths |-> AbsentDoc]
    /\ summary = <<>>
    /\ now = 0
    /\ pc = "idle"
    /\ run = NoRun
    /\ exit = NotExited
    /\ launches = <<>>
    /\ writes = <<>>
    /\ status0 = status
    /\ nRuns = 0
    /\ last = NoLast
    /\ wpc = "idle"
    /\ wreq = NoReq
    /\ wdone = 0
    /\ aw = NoCall
    /\ kc = NoKeys
    /\ ap = NoAppends
    /\ hc = NoHealth
    /\ rp = NoPipeline
    /\ pst = NoStatus

\* process p starts: _load_json(status_json), then the update in memory
StatusLoad(p, args) ==
    /\ pst.proc[p].pc = "idle"
    /\ wdone < MaxWrites
    /\ wdone' = wdone + 1
    /\ LET loaded == IF pst.json_exists THEN pst.json ELSE NoDoc
       IN  pst' = [pst EXCEPT !.proc[p].pc = "write_tmp",
                              !.proc[p].stage = args.stage,
                              !.proc[p].i = 0,
                              !.proc[p].doc = stage_update(loaded, args)]
    /\ UNCHANGED <<worldVars, runVars, wpc, wreq, exceptPst>>

\* the next step of process p: tmp.write_text, tmp.replace(path) (which
\* raises FileNotFoundError and is retried when the .tmp file is gone),
\* and the write of PIPELINE_STATUS.txt, after which main returns
StatusStep(p) ==
    /\ pst.proc[p].pc \in {"write_tmp", "replace", "txt"}
    /\ LET me == pst.proc[p]
       IN  pst' =
             CASE me.pc = "write_tmp" ->
                    [pst EXCEPT !.tmp_exists = TRUE, !.tmp = me.doc,
                                !.proc[p].pc = "replace"]
               [] me.pc = "replace" /\ pst.tmp_exists ->
                    [pst EXCEPT !.json_exists = TRUE, !.json = pst.tmp,
                                !.tmp_exists = FALSE, !.tmp = NoDoc,
                                !.proc[p].pc = "txt"]
               [] me.pc = "replace" /\ ~pst.tmp_exists ->
                    [pst EXCEPT !.proc[p].i = me.i + 1,
                                !.proc[p].pc =
                                    IF me.i + 1 < RETRIES THEN "write_tmp" ELSE "idle"]
               [] me.pc = "txt" ->
                    [pst EXCEPT !.txt_exists = TRUE, !.txt = me.doc,
                                !.proc[p].pc = "idle",
                                !.proc[p].recorded =
                                    IF me.stage = "reset" THEN {}
                                    ELSE @ \cup {me.stage}]
    /\ UNCHANGED <<worldVars, runVars, writeVars, exceptPst>>

\* one invocation after the other
NextStatus ==
    \/ \E args \in StatusArgs : StatusLoad("A", args)
    \/ StatusStep("A")

SpecStatus == InitStatus /\ [][NextStatus]_vars

\* two invocations at a time, A for the stage fetch and B for the stage
\* prepare of the run r1
NextStatusShared ==
    \/ \E st \in {"RUNNING", "SUCCESS"} : StatusLoad("A", [stage |-> "fetch", status |-> st, run_id |-> "r1"])
    \/ \E st \in {"RUNNING", "SUCCESS"} : StatusLoad("B", [stage |-> "prepare", status |-> st, run_id |-> "r1"])
    \/ \E p \in {"A", "B"} : StatusStep(p)

SpecStatusShared == InitStatus /\ [][NextStatusShared]_vars


\* ---------------------------------------------------------------------
\* Properties
\* ---------------------------------------------------------------------
Done == pc = "done"

LastPayload ==
    IF writes = <<>> THEN EmptyPayload ELSE writes[Len(writes)].payload

FallbackLaunched ==
    \E i \in 1..Len(launches) : launches[i].core = "FALLBACK"

PrimaryJson == with_suffix(RUN_STATUS_TXT(Parent(run.args.output)), ".json")
FallbackJson == with_suffix(RUN_STATUS_TXT(Parent(run.output_path_fb)), ".json")

\* the contents whose header row names every required column ("v2":
\* behind a byte-order mark in the first cell)
NamesEveryRequiredCol(c) == c \in {"v1", "v2"}

\* the declared artifacts pass output validation
OutputsValid(fsv, out, top) ==
    /\ fsv[out] \notin {"absent", "empty"}
    /\ top # NoPath => fsv[top] \notin {"absent", "empty"}
    /\ Suffix(out) = ".csv" => NamesEveryRequiredCol(fsv[out])

\* the hash computed now for a declared artifact
FreshHash(fsv, q) == IF q = NoPath THEN "" ELSE sha256_file(fsv[q])

OutputChanged(doc, fsv, out) ==
    /\ doc.payload.output_sha256 # ""
    /\ FreshHash(fsv, out) # doc.payload.output_sha256

Top20Changed(doc, fsv, top) ==
    /\ doc.payload.top20_sha256 # ""
    /\ FreshHash(fsv, top) # doc.payload.top20_sha256

\* the previous record doc is a SUCCESS for the same RunKey and one of
\* its recorded hashes differs from the hash of the artifact now
Diverges(doc, key, fsv, out, top) ==
    /\ doc.state = "complete"
    /\ doc.payload.run_key = key
    /\ doc.payload.result = "SUCCESS"
    /\ OutputChanged(doc, fsv, out) \/ Top20Changed(doc, fsv, top)

\* the step in which the primary Job returns with exit code 0 and
\* valid outputs
PrimaryValidStep ==
    /\ pc = "primary_running" /\ pc' # "primary_running"
    /\ run'.rc1 = Some(0)
    /\ OutputsValid(fs', run.args.output, run.top20_path_primary)

\* the step in which the fallback Job returns with exit code 0 and
\* valid outputs
FallbackValidStep ==
    /\ pc = "fallback_running" /\ pc' # "fallback_running"
    /\ run'.rc2 = Some(0)
    /\ OutputsValid(fs', run.output_path_fb, run.top20_path_fb)

\* C1: a non-dry run whose primary Job exits 0 with valid outputs, and
\* with no previous status record at the output location, does not launch
\* the fallback Job, persists result=SUCCESS, used_core=PRIMARY and exits 0.
C1_PrimarySuccessFirstRun ==
    [][ ( /\ PrimaryValidStep
          /\ ~run.args.dry_run
          /\ status0[PrimaryJson].state = "absent" )
        => ( /\ pc' = "done"
             /\ \A i \in 1..Len(launches') : launches'[i].core # "FALLBACK"
             /\ Len(writes') = 1
             /\ writes'[1].payload.result = "SUCCESS"
             /\ writes'[1].payload.used_core = "PRIMARY"
             /\ status'[PrimaryJson] = CompleteDoc(writes'[1].payload)
             /\ ExitCode(exit') = 0 ) ]_vars

C1_Witness ==
    /\ Done /\ ~run.args.dry_run
    /\ run.rc1 = Some(0)
    /\ status0[PrimaryJson].state = "absent"
    /\ ~FallbackLaunched
    /\ LastPayload.result = "SUCCESS" /\ LastPayload.used_core = "PRIMARY"
    /\ ExitCode(exit) = 0

\* C2: when the primary Job exits non-zero and the fallback script exists,
\* the fallback Job is launched with the primary paths tagged "__FALLBACK",
\* each tagged path differs from the path it is made from, and no path
\* handed to the fallback Job is a primary artifact path of the run.
C2_FallbackPathsNeverPrimary ==
    pc = "fallback_running" =>
        LET l == launches[Len(launches)]
            primary == {run.args.output, run.top20_path_primary} \ {NoPath}
        IN  /\ l.core = "FALLBACK"
            /\ l.output = tagged_path(run.args.output, "__FALLBACK")
            /\ l.output # run.args.output
            /\ run.top20_path_primary # NoPath =>
                  /\ l.top20 = tagged_path(run.top20_path_primary, "__FALLBACK")
                  /\ l.top20 # run.top20_path_primary
            /\ l.output \notin primary
            /\ l.top20 \notin primary

\* C3: with a previous SUCCESS record of the same RunKey at the primary
\* location, a primary Job that exits 0 with valid outputs one of whose
\* hashes differs from the recorded non-empty hash makes the run persist
\* result=FAILED and exit 20 (output) or 21 (top artifact) without
\* launching the fallback Job.
C3_PrimaryDivergenceIsHardFailure ==
    [][ ( /\ PrimaryValidStep
          /\ Diverges(status0[PrimaryJson], run.run_key_primary, fs',
                      run.args.output, run.top20_path_primary) )
        => ( /\ pc' = "done"
             /\ \A i \in 1..Len(launches') : launches'[i].core # "FALLBACK"
             /\ Len(writes') = 1
             /\ writes'[1].payload.result = "FAILED"
             /\ status'[PrimaryJson] = CompleteDoc(writes'[1].payload)
             /\ ExitCode(exit') =
                  IF OutputChanged(status0[PrimaryJson], fs', run.args.output)
                  THEN 20 ELSE 21 ) ]_vars

C3_Witness ==
    /\ Done
    /\ status0[PrimaryJson].payload.result = "SUCCESS"
    /\ status0[PrimaryJson].payload.run_key = run.run_key_primary
    /\ run.rc1 = Some(0)
    /\ ~FallbackLaunched
    /\ LastPayload.result = "FAILED"
    /\ ExitCode(exit) = 21

\* C4: the status documents of a run that used the fallback tier are
\* written at a location other than the primary status location, and the
\* record a successful primary run left there is still there afterwards.
C4_FallbackStatusElsewhere ==
    (Done /\ FallbackLaunched) =>
        /\ \A i \in 1..Len(writes) :
              writes[i].path # RUN_STATUS_TXT(Parent(run.args.output))
        /\ ( /\ status0[PrimaryJson].payload.result = "SUCCESS"
             /\ status0[PrimaryJson].payload.used_core = "PRIMARY" )
           => status[PrimaryJson] = status0[PrimaryJson]

\* C5: at every point of a write of RUN_STATUS.txt / RUN_STATUS.json,
\* and after an interrupted one, the file at the final path holds either
\* the complete previous record or the complete new record.
C5_StatusWriteAtomic ==
    \A q \in {wreq.path, with_suffix(wreq.path, ".json")} :
        wreq.path # NoPath =>
            status[q] \in {wreq.before[q], CompleteDoc(wreq.payload)}

\* C6: the stability check of a valid attempt fails the run if and only
\* if the previous record of the location is a SUCCESS of the same RunKey
\* with a non-empty recorded hash that differs from the fresh hash of that
\* artifact; otherwise it writes nothing and the attempt is recorded as a
\* success.
StabilityFailed ==
    /\ pc = "done"
    /\ ExitCode(exit) \in {20, 21}
    /\ LastPayload.result = "FAILED"
    /\ Len(writes) = 1

AttemptSucceeded ==
    /\ pc = "done"
    /\ ExitCode(exit) = 0
    /\ LastPayload.result = "SUCCESS"
    /\ Len(writes) = 1

C6_DivergenceIff ==
    [][ /\ PrimaryValidStep =>
             IF Diverges(status0[PrimaryJson], run.run_key_primary, fs',
                         run.args.output, run.top20_path_primary)
             THEN StabilityFailed' ELSE AttemptSucceeded'
        /\ FallbackValidStep =>
             IF Diverges(status0[FallbackJson], run.run_key_fb, fs',
                         run.output_path_fb, run.top20_path_fb)
             THEN StabilityFailed' ELSE AttemptSucceeded' ]_vars

\* a previous SUCCESS of the same RunKey with the same hashes: no divergence
C6_Witness ==
    /\ Done /\ ~run.args.dry_run
    /\ status0[PrimaryJson].payload.result = "SUCCESS"
    /\ status0[PrimaryJson].payload.run_key = run.run_key_primary
    /\ status0[PrimaryJson].payload.output_sha256 # ""
    /\ run.rc1 = Some(0)
    /\ AttemptSucceeded

\* C7: when the primary Job exits non-zero and the fallback Job exits 0
\* with valid outputs that pass the stability check, the run persists
\* result=SUCCESS, used_core=FALLBACK, the primary exit code and a
\* non-empty primary_error, and exits 0.
C7_FallbackSuccessRecord ==
    [][ ( /\ FallbackValidStep
          /\ run.rc1 # Some(0)
          /\ ~Diverges(status0[FallbackJson], run.run_key_fb, fs',
                       run.output_path_fb, run.top20_path_fb) )
        => ( /\ pc' = "done"
             /\ LastPayload'.result = "SUCCESS"
             /\ LastPayload'.used_core = "FALLBACK"
             /\ LastPayload'.primary_returncode = run.rc1
             /\ LastPayload'.primary_error # ""
             /\ status'[FallbackJson] = CompleteDoc(LastPayload')
             /\ ExitCode(exit') = 0 ) ]_vars

C7_Witness ==
    /\ Done /\ FallbackLaunched
    /\ run.rc1 = Some(1) /\ run.rc2 = Some(0)
    /\ LastPayload.result = "SUCCESS" /\ LastPayload.used_core = "FALLBACK"
    /\ ExitCode(exit) = 0

\* C8: every run whose primary attempt failed and which ends in failure
\* persists result=FAILED, used_core=NONE and non-empty primary_error and
\* fallback_error.
C8_BothErrorsRecorded ==
    (Done /\ run.fallback_reason # "" /\ ExitCode(exit) # 0) =>
        /\ LastPayload.result = "FAILED"
        /\ LastPayload.used_core = "NONE"
        /\ LastPayload.primary_error # ""
        /\ LastPayload.fallback_error # ""

\* the terminal outcome of a run, as C9 names them
Outcome(e) ==
    IF e.stability THEN "divergence"
    ELSE IF e.result = "SUCCESS" /\ e.used_core = "PRIMARY" THEN "primary"
    ELSE IF e.result = "SUCCESS" /\ e.used_core = "FALLBACK" THEN "fallback"
    ELSE IF e.result = "FAILED" /\ e.primary_failed THEN "failed"
    ELSE "other"

\* C9 as stated: two runs that end in different ones of the four
\* outcomes end with different exit codes.
C9_DistinctExitCodes ==
    (Done /\ nRuns >= 2 /\ Outcome(last) # "other" /\ Outcome(Ended) # "other"
          /\ Outcome(last) # Outcome(Ended))
        => last.code # Ended.code

\* C9 as amended: success through either tier exits 0, failure of both
\* tiers exits 2 or 3, stability divergence exits 20 or 21.
C9_ExitCodeClasses ==
    Done =>
        /\ Outcome(Ended) \in {"primary", "fallback"} => ExitCode(exit) = 0
        /\ Outcome(Ended) = "failed" => ExitCode(exit) \in {2, 3}
        /\ Outcome(Ended) = "divergence" => ExitCode(exit) \in {20, 21}

C9_Witness ==
    /\ Done /\ nRuns >= 2
    /\ Outcome(last) = "primary" /\ Outcome(Ended) = "fallback"
    /\ last.code = 0 /\ ExitCode(exit) = 0

\* C10: a non-dry run with a missing input file or a missing primary
\* script exits with code 2.
C10_MissingInputOrScriptExits2 ==
    (Done /\ ~run.args.dry_run
          /\ (run.input_sha256 = "" \/ ~run.primary_script_exists))
        => ExitCode(exit) = 2

\* a stored row is inside the retention window of 30 days before nowv,
\* or its timestamp does not parse
Retained(row, nowv) ==
    LET ts == parse_ts(row["timestamp"])
    IN  ts = None \/ ts[1] >= nowv - 30

RetainedIdx(rows, nowv) == {i \in 1..Len(rows) : Retained(rows[i], nowv)}

\* the index in rows of the j-th retained row
NthRetained(rows, nowv, j) ==
    CHOOSE i \in RetainedIdx(rows, nowv) :
        Cardinality({k \in RetainedIdx(rows, nowv) : k <= i}) = j

\* C11: after a ledger append the ledger holds exactly the stored rows
\* whose timestamp is unparseable or not older than 30 days before now,
\* in their original order, followed by the new row; no row with a
\* parseable timestamp older than the cutoff remains.
C11_LedgerRetention ==
    [][ wdone' = wdone + 1 =>
          /\ Len(summary') = Cardinality(RetainedIdx(summary, now)) + 1
          /\ \A j \in 1..(Len(summary') - 1) :
                summary'[j] = summary[NthRetained(summary, now, j)]
          /\ summary'[Len(summary')] = SummaryRow(wreq'.payload)
          /\ \A j \in 1..Len(summary') :
                LET ts == parse_ts(summary'[j]["timestamp"])
                IN  ts # None => ts[1] >= now - 30 ]_vars

\* the legacy row was kept while an older row of this tool was dropped
C11_Witness ==
    /\ wdone >= 2
    /\ Len(summary) = 2
    /\ summary[1]["timestamp"] = LEGACY_TS
    /\ parse_ts(summary[2]["timestamp"]) = Some(now)
    /\ now > 30

\* C12: at every point of a ledger append, and after an interrupted one,
\* run_summary.csv holds either the complete ledger of before the append
\* or the complete ledger of after it.
C12_LedgerWriteAtomic ==
    wreq.path # NoPath =>
        summary \in { wreq.ledger,
                      append_run_summary(wreq.ledger, wreq.payload, KEEP_DAYS, now) }

\* the step in which the primary Job returns with exit code 0
PrimaryRc0Step ==
    /\ pc = "primary_running" /\ pc' # "primary_running"
    /\ run'.rc1 = Some(0)

\* the step in which the fallback Job returns with exit code 0
FallbackRc0Step ==
    /\ pc = "fallback_running" /\ pc' # "fallback_running"
    /\ run'.rc2 = Some(0)

\* C13 as stated: whenever the primary Job exits 0 and a declared output
\* fails validation, the fallback Job is launched.
C13_InvalidPrimaryLaunchesFallback ==
    [][ ( /\ PrimaryRc0Step
          /\ ~OutputsValid(fs', run.args.output, run.top20_path_primary) )
        => pc' = "fallback_running" ]_vars

\* C13 as amended: an attempt whose Job exited 0 is accepted if and only
\* if its declared outputs are valid; a primary attempt that is not
\* accepted makes the run enter the fallback tier, and the fallback Job is
\* launched whenever the fallback script exists.
C13_ValidationIff ==
    [][ /\ PrimaryRc0Step =>
             /\ (run'.fallback_reason = "")
                   <=> OutputsValid(fs', run.args.output, run.top20_path_primary)
             /\ (run'.fallback_reason # "" /\ run'.fallback_script_exists)
                   => /\ pc' = "fallback_running"
                      /\ launches'[Len(launches')].core = "FALLBACK"
        /\ FallbackRc0Step =>
             ( (LastPayload'.used_core = "FALLBACK")
                 <=> OutputsValid(fs', run.output_path_fb, run.top20_path_fb) )
      ]_vars

\* the primary Job exited 0 leaving a CSV without the required columns,
\* and the fallback Job is running
C13_Witness ==
    /\ pc = "fallback_running"
    /\ run.rc1 = Some(0)
    /\ Suffix(run.args.output) = ".csv"
    /\ fs[run.args.output] = "bad"
    /\ run.fallback_reason = "PRIMARY OUTPUT INVALID"

\* C14: when the primary Job exited 0, its outputs are valid and stable,
\* and the write of the status documents raises, the run ends as a
\* failure: the fallback tier is not entered and no "primary output
\* invalid" reason is recorded.
C14_WriteFailurePropagates ==
    [][ ( /\ PrimaryValidStep
          /\ ~Diverges(status0[PrimaryJson], run.run_key_primary, fs',
                       run.args.output, run.top20_path_primary)
          /\ writes' = <<>> )
        => ( /\ pc' = "done"
             /\ ExitCode(exit') # 0
             /\ run'.fallback_reason = ""
             /\ \A i \in 1..Len(launches') : launches'[i].core # "FALLBACK" )
      ]_vars

\* the step in which a non-dry run finds the primary script missing
PrimaryMissingStep ==
    /\ pc \in {"idle", "done"} /\ nRuns' = nRuns + 1
    /\ ~run'.args.dry_run
    /\ ~run'.primary_script_exists

FallbackMissingStep ==
    /\ pc = "primary_running" /\ pc' # "primary_running"
    /\ \/ run'.rc1 # Some(0)
       \/ ~OutputsValid(fs', run.args.output, run.top20_path_primary)
    /\ ~run'.fallback_script_exists

\* C16: when the primary attempt failed and the fallback script does not
\* exist, no fallback process is launched, no file other than the primary
\* Job's declared outputs changes, no status document outside the primary
\* location changes, one record with result=FAILED, used_core=NONE and
\* the primary exit code is persisted at the primary location, and the
\* run exits non-zero.
C16_FallbackMissingEndsRun ==
    [][ FallbackMissingStep =>
          /\ pc' = "done"
          /\ launches' = launches
          /\ \A i \in 1..Len(launches') : launches'[i].core # "FALLBACK"
          /\ \A q \in FsPaths :
                fs'[q] # fs[q] => q \in {run.args.output, run.top20_path_primary}
          /\ \A q \in StatusPaths :
                status'[q] # status[q] =>
                    q \in {RUN_STATUS_TXT(Parent(run.args.output)), PrimaryJson}
          /\ Len(writes') = 1
          /\ writes'[1].path = RUN_STATUS_TXT(Parent(run.args.output))
          /\ LastPayload'.result = "FAILED"
          /\ LastPayload'.used_core = "NONE"
          /\ LastPayload'.primary_returncode = run'.rc1
          /\ LastPayload'.fallback_returncode = None
          /\ LastPayload'.output = run.args.output
          /\ status'[PrimaryJson] = CompleteDoc(LastPayload')
          /\ ExitCode(exit') # 0 ]_vars

\* the primary Job exited non-zero, the fallback script was missing and
\* the run has ended
C16_Witness ==
    /\ Done /\ ~run.args.dry_run /\ run.primary_script_exists
    /\ run.rc1 = Some(1)
    /\ ~run.fallback_script_exists
    /\ launches # <<>>
    /\ LastPayload.fallback_error = "Fallback script not found"
    /\ ExitCode(exit) = EXIT_FALLBACK_MISSING

\* the launches of this run that started the Job of a tier
LaunchesOf(core) == {i \in 1..Len(launches) : launches[i].core = core}

\* the child process of a tier has been started and _run_subprocess has
\* not returned its exit code yet
PrimaryChildRunning == LaunchesOf("PRIMARY") # {} /\ run.rc1 = None
FallbackChildRunning == LaunchesOf("FALLBACK") # {} /\ run.rc2 = None

\* C17: in every run the primary Job is launched at most once and the
\* fallback Job at most once, the fallback Job is launched only after the
\* primary child process has exited, and the two child processes are
\* never running at the same time.
C17_SequentialAttempts ==
    /\ Cardinality(LaunchesOf("PRIMARY")) <= 1
    /\ Cardinality(LaunchesOf("FALLBACK")) <= 1
    /\ Len(launches) <= 2
    /\ \A i \in LaunchesOf("FALLBACK") :
          /\ \E j \in LaunchesOf("PRIMARY") : j < i
          /\ run.rc1 # None
    /\ ~(PrimaryChildRunning /\ FallbackChildRunning)
    /\ pc = "primary_running" <=> PrimaryChildRunning
    /\ pc = "fallback_running" <=> FallbackChildRunning

\* the fallback child process is running after the primary one exited
C17_Witness ==
    /\ FallbackChildRunning
    /\ ~PrimaryChildRunning
    /\ Len(launches) = 2
    /\ launches[1].core = "PRIMARY" /\ launches[2].core = "FALLBACK"

\* the step in which a run reaches its terminal outcome
RunEndsStep ==
    /\ pc' = "done"
    /\ pc # "done" \/ nRuns' # nRuns

\* C18: the step in which a run reaches its terminal outcome writes both
\* status documents once, with the record of the run, and adds one row
\* with the same field values at the end of the ledger; no other step
\* changes a status document or the ledger, so the status JSON at the
\* written location stays the record of that run.
C18_OneRecordPerRun ==
    [][ IF RunEndsStep
        THEN /\ Len(writes') = 1
             /\ LastPayload'.timestamp = isoformat(now)
             /\ status' = [status EXCEPT
                    ![writes'[1].path] = CompleteDoc(LastPayload'),
                    ![with_suffix(writes'[1].path, ".json")] = CompleteDoc(LastPayload')]
             /\ Len(summary') = Cardinality(RetainedIdx(summary, now)) + 1
             /\ summary'[Len(summary')] = SummaryRow(LastPayload')
             /\ \A k \in SUMMARY_COLS :
                   summary'[Len(summary')][k] = LastPayload'[k]
        ELSE /\ status' = status
             /\ summary' = summary
             /\ Done => /\ Len(writes) = 1
                         /\ status[with_suffix(writes[1].path, ".json")]
                               = CompleteDoc(LastPayload) ]_vars

\* a second run has ended with both tiers failed, and the ledger holds
\* one row for each of the two runs
C18_Witness ==
    /\ Done /\ nRuns = 2
    /\ Len(launches) = 2
    /\ run.rc1 = Some(1) /\ run.rc2 = Some(1)
    /\ LastPayload.result = "FAILED"
    /\ Len(summary) = 2
    /\ status[with_suffix(writes[1].path, ".json")] = CompleteDoc(LastPayload)

\* C19: when the status JSON at the output location is missing,
\* truncated or a JSON text that is not an object, a primary Job that
\* exits 0 with valid outputs is recorded as SUCCESS with used_core=PRIMARY
\* and the run exits 0 without a fallback launch, as with no previous
\* record at all.
C19_CorruptPreviousIsAbsent ==
    [][ ( /\ PrimaryValidStep
          /\ status0[PrimaryJson].state \in {"absent", "torn", "nonobject"} )
        => ( /\ pc' = "done"
             /\ launches' = launches
             /\ LastPayload'.result = "SUCCESS"
             /\ LastPayload'.used_core = "PRIMARY"
             /\ ExitCode(exit') = 0 ) ]_vars

\* the attempts _atomic_write_text has made in the current call
AtomicAttempts ==
    Len(aw.errs) + (IF aw.pc = "returned" THEN 1 ELSE 0)

\* C20 as stated: a failed attempt is retried with increasing delay
\* (every delay is longer than the one before it), at most 3 attempts
\* are made, the call returns at the first success, and after 3 failures
\* the last error is raised with the final path still holding its
\* previous content.
C20_RetryIncreasingDelay ==
    /\ \A k \in 1..(Len(aw.slept) - 1) : aw.slept[k] < aw.slept[k + 1]
    /\ AtomicAttempts <= RETRIES
    /\ aw.pc = "returned" => aw.path = aw.text
    /\ aw.pc = "raised" => aw.path = aw.path0

\* C20 as amended: a failed attempt is followed by a delay of 0.2, 0.5,
\* 1.0 s (by attempt) when the error is a PermissionError and of 0.2 s
\* for any other error; at most 3 attempts are made; the call returns at
\* the first attempt that succeeds, with the text at the final path; and
\* when all 3 attempts fail the error of the last attempt is raised while
\* the final path still holds its complete previous content.
C20_BoundedRetry ==
    /\ Len(aw.slept) = Len(aw.errs)
    /\ \A k \in 1..Len(aw.slept) :
          aw.slept[k] = IF aw.errs[k] = "PermissionError"
                        THEN PERMISSION_DELAYS[k] ELSE OTHER_DELAY
    /\ \A k \in 1..(Len(aw.slept) - 1) :
          (aw.errs[k] = "PermissionError" /\ aw.errs[k + 1] = "PermissionError")
             => aw.slept[k] < aw.slept[k + 1]
    /\ AtomicAttempts <= RETRIES
    /\ aw.pc = "returned" => /\ aw.path = aw.text
                             /\ aw.tmp = "absent"
    /\ aw.pc = "loop" => /\ aw.path = aw.path0
                         /\ aw.path # "torn"
    /\ aw.pc = "raised" => /\ Len(aw.errs) = RETRIES
                           /\ aw.last_err = aw.errs[RETRIES]
                           /\ aw.path = aw.path0
                           /\ aw.path # "torn"

\* a call over an existing document has failed three times, with errors
\* of both kinds, and raised
C20_Witness ==
    /\ aw.pc = "raised"
    /\ aw.path0 = "doc1" /\ aw.text = "doc2"
    /\ aw.errs = <<"PermissionError", "PermissionError", "OSError">>
    /\ aw.tmp = "doc2"

\* the four values the RunKey of run r is made from
KeyParts(r) ==
    <<r.mode, r.input, sha256_file(r.input_bytes), top20_path_primary_of(r)>>

\* C21: two runs have equal RunKeys if and only if their mode, input
\* path, input content hash and top-artifact path are equal.
C21_RunKeyIffFourValues ==
    kc # NoKeys =>
        ( (kc.key_a = kc.key_b) <=> (KeyParts(kc.a) = KeyParts(kc.b)) )

\* C22: a run whose Job has been launched eventually reaches a terminal
\* outcome, even when the Job does not exit.
C22_HungJobRunEnds ==
    (pc \in {"primary_running", "fallback_running"}) ~> Done

\* the ledger rows of the SUCCESS records written for RunKey key with
\* output path out that recorded an output hash
SuccessRows(key, out) ==
    { i \in 1..Len(summary) : /\ summary[i].result = "SUCCESS"
                              /\ summary[i].run_key = key
                              /\ summary[i].output = out
                              /\ summary[i].output_sha256 # "" }

\* the most recent of them
LastSuccessRow(key, out) ==
    summary[CHOOSE i \in SuccessRows(key, out) :
                \A j \in SuccessRows(key, out) : j <= i]

\* C23: a primary attempt that exits 0 with valid outputs is failed for
\* stability whenever its output hash differs from the hash recorded by
\* the most recent earlier SUCCESS record with the same RunKey at that
\* output path, whatever records were written in between.
C23_ComparesWithLastSuccess ==
    [][ ( /\ PrimaryValidStep
          /\ SuccessRows(run.run_key_primary, run.args.output) # {}
          /\ LastSuccessRow(run.run_key_primary, run.args.output).output_sha256
                # FreshHash(fs', run.args.output) )
        => ( /\ LastPayload'.result = "FAILED"
             /\ ExitCode(exit') = EXIT_OUTPUT_CHANGED ) ]_vars

\* the ledger rows written for RunKey key in the directory of the output
\* path out by runs that launched the primary Job
LaunchedRows(key, out) ==
    { i \in 1..Len(summary) : /\ summary[i].run_key = key
                              /\ Parent(summary[i].output) = Parent(out)
                              /\ summary[i].primary_returncode # None }

\* C24: the first run that launches the Job for a RunKey at an output
\* location passes the stability check: when its primary Job exits 0 with
\* valid outputs the run is recorded as SUCCESS and exits 0, whatever
\* earlier runs with other RunKeys and earlier dry runs have left there.
C24_FirstRunPassesStability ==
    [][ ( /\ PrimaryValidStep
          /\ LaunchedRows(run.run_key_primary, run.args.output) = {} )
        => ( /\ LastPayload'.result = "SUCCESS"
             /\ LastPayload'.used_core = "PRIMARY"
             /\ ExitCode(exit') = 0 ) ]_vars

\* C25: in every run that reaches the fallback tier the fallback RunKey
\* differs from the primary RunKey, and the previous record consulted
\* for the fallback attempt is absent or was written by a fallback
\* attempt.
C25_FallbackKeySeparate ==
    pc = "fallback_running" =>
        /\ run.run_key_fb # run.run_key_primary
        /\ run.prev_fb.used_core \in {"", "FALLBACK"}

\* C26: when both orchestrators have finished their calls, the ledger
\* holds one row for each call and every row either of them appended.
C26_SharedLedgerKeepsBoth ==
    (\A p \in {"A", "B"} : ap[p].pc = "idle") =>
        /\ Len(summary) = Len(ap["A"].appended) + Len(ap["B"].appended)
        /\ \A p \in {"A", "B"} : \A i \in 1..Len(ap[p].appended) :
              \E j \in 1..Len(summary) : summary[j] = ap[p].appended[i]

\* C27: every record written with result SUCCESS names the core that
\* produced it (PRIMARY or FALLBACK), carries exit code 0 for that core,
\* and describes an output that exists, is not empty and has a recorded
\* hash
SuccessRecordSound(pl) ==
    /\ pl.used_core \in {"PRIMARY", "FALLBACK"}
    /\ pl.used_core = "PRIMARY" => pl.primary_returncode = Some(0)
    /\ pl.used_core = "FALLBACK" => pl.fallback_returncode = Some(0)
    /\ pl.output_exists
    /\ pl.output_bytes > 0
    /\ pl.output_sha256 # ""

C27_SuccessRecordSound ==
    \A i \in 1..Len(writes) :
        writes[i].payload.result = "SUCCESS" => SuccessRecordSound(writes[i].payload)

\* the same, for the records of runs that launched a Job
C27_LaunchedSuccessRecordSound ==
    \A i \in 1..Len(writes) :
        (writes[i].payload.result = "SUCCESS" /\ launches # <<>>)
            => SuccessRecordSound(writes[i].payload)

\* a health check ran in this step
HealthCheckStep == hc'.n = hc.n + 1

\* C28: once a run has appended a FAILED row, every health check run
\* within recent_hours of the row's timestamp exits 31 and leaves
\* HEALTH_ALERT.txt in place, however many rows were appended since
C28_RecentFailureAlerts ==
    [][ (HealthCheckStep
         /\ \E t \in hc.failed_at : 24 * (now' - t) <= hc'.args.recent_hours)
           => (hc'.exit = SystemExitInt(31) /\ hc'.alert) ]_vars

\* the same for the health checks that read every row of the ledger
C28_RecentFailureAlertsAllRows ==
    [][ (HealthCheckStep /\ hc'.args.max_rows <= 0
         /\ \E t \in hc.failed_at : 24 * (now' - t) <= hc'.args.recent_hours)
           => (hc'.exit = SystemExitInt(31) /\ hc'.alert) ]_vars

\* C29: for every ledger and every integer min_samples, window_days,
\* recent_hours and max_rows the health check ends with an exit code in
\* {0, 30, 31, 32}; it exits 32 only when at least min_samples SUCCESS
\* rows were evaluated and the share of FALLBACK among them exceeds
\* fb_ratio; it removes the alert file only when it exits 0
C29_HealthExitCodes ==
    hc.n > 0 =>
        /\ hc.exit \in {SystemExitInt(c) : c \in {0, 30, 31, 32}}
        /\ hc.exit = SystemExitInt(32) =>
              /\ hc.evaluated >= hc.args.min_samples
              /\ hc.fb_cnt * 100 > FB_RATIO_PCT * hc.evaluated
        /\ (hc.alert_before /\ ~hc.alert) => hc.exit = SystemExitInt(0)

\* the same for the health checks with min_samples of at least 1
C29_HealthExitCodesPositiveSamples ==
    (hc.n > 0 /\ hc.args.min_samples >= 1) =>
        /\ hc.exit \in {SystemExitInt(c) : c \in {0, 30, 31, 32}}
        /\ hc.exit = SystemExitInt(32) =>
              /\ hc.evaluated >= hc.args.min_samples
              /\ hc.fb_cnt * 100 > FB_RATIO_PCT * hc.evaluated
        /\ (hc.alert_before /\ ~hc.alert) => hc.exit = SystemExitInt(0)

\* run_pipeline returned normally only if one core, the local one or
\* else fallback_core, completed, wrote the output and, when a top
\* artifact was requested, exported it
SameCoreOnReturn ==
    rp.exit = Return =>
        \E c \in {"LOCAL", "FALLBACK"} :
            /\ rp.completed = {c}
            /\ c = "FALLBACK" => "LOCAL" \in rp.failed
            /\ rp.out = c
            /\ rp.top => rp.topf = c

\* the local core failed and fallback_core is absent or failed too
BothCoresFailed ==
    "LOCAL" \in rp.failed /\ (~rp.fb_dir \/ "FALLBACK" \in rp.failed)

\* C30 as stated: run_pipeline returns normally only if one single core
\* completed both the output and the requested top artifact, and it
\* raises if and only if the local core failed and fallback_core is
\* absent or also failed
C30_Original ==
    /\ SameCoreOnReturn
    /\ rp.pc = "done" => (rp.exit = Uncaught <=> BothCoresFailed)

\* C30 (amended): run_pipeline returns normally only if one single core
\* completed both the output and the requested top artifact, and it
\* raises if and only if the input could not be read, or the local core
\* failed and fallback_core is absent or also failed
C30_RaisesIffUnreadableOrBothFailed ==
    /\ SameCoreOnReturn
    /\ rp.pc = "done" => (rp.exit = Uncaught <=> (~rp.read_ok \/ BothCoresFailed))
    /\ rp.pc = "done" => rp.exit \in {Return, Uncaught}

\* the local core failed, fallback_core then wrote the output and the
\* requested top artifact, and run_pipeline returned
C30_Witness ==
    /\ rp.pc = "done"
    /\ rp.exit = Return
    /\ rp.top
    /\ rp.failed = {"LOCAL"}
    /\ rp.completed = {"FALLBACK"}
    /\ rp.out = "FALLBACK"
    /\ rp.topf = "FALLBACK"

\* an invocation with --dry_run starts (and ends) in this step
DryRunStep == nRuns' = nRuns + 1 /\ run'.args.dry_run

\* C31: with --dry_run, whatever the other flags, no Job is launched, the
\* input, output and top-artifact files are neither created nor modified,
\* and the run exits 0 when the input and the primary script exist and
\* 10 otherwise
C31_DryRunTouchesNoFile ==
    [][ DryRunStep =>
          /\ launches' = <<>>
          /\ fs' = fs
          /\ pc' = "done"
          /\ ExitCode(exit') = IF Exists(fs[INPUT]) /\ run'.primary_script_exists
                               THEN 0 ELSE EXIT_DRY_RUN_FAILED ]_vars

\* the same for the dry runs without --precheck
C31_DryRunWithoutPrecheck ==
    [][ (DryRunStep /\ ~run'.args.precheck) =>
          /\ launches' = <<>>
          /\ fs' = fs
          /\ pc' = "done"
          /\ ExitCode(exit') = IF Exists(fs[INPUT]) /\ run'.primary_script_exists
                               THEN 0 ELSE EXIT_DRY_RUN_FAILED ]_vars

\* the statuses of the stage entries of the stored PIPELINE_STATUS.json
RecordedStatuses == {pst.json.stages[s] : s \in StageNames} \ {"absent"}

\* the stored document was written by a stage update
StoredByUpdate == pst.json_exists /\ pst.json.by = "update"

\* a document written by a reset has no stage entry
ResetDiscardsStages ==
    (pst.json_exists /\ pst.json.by = "reset") =>
        \A s \in StageNames : pst.json.stages[s] = "absent"

\* C32 as stated: after the calls that follow a reset the stored
\* overall_status is FAILED iff some recorded stage is FAILED, otherwise
\* RUNNING iff some recorded stage is RUNNING, otherwise SUCCESS when at
\* least one stage is recorded; a reset discards every stage entry
C32_Original ==
    /\ StoredByUpdate =>
          pst.json.overall_status =
              IF "FAILED" \in RecordedStatuses THEN "FAILED"
              ELSE IF "RUNNING" \in RecordedStatuses THEN "RUNNING"
              ELSE IF RecordedStatuses # {} THEN "SUCCESS"
              ELSE pst.json.overall_status
    /\ ResetDiscardsStages

\* C32 (amended): the stored overall_status is FAILED iff some recorded
\* stage is FAILED, otherwise RUNNING iff some recorded stage is RUNNING,
\* otherwise SUCCESS when at least one stage is recorded with a status
\* that is not empty, and RUNNING when every recorded status is empty; a
\* reset discards every stage entry written before it
C32_OverallFromStages ==
    /\ StoredByUpdate =>
          pst.json.overall_status =
              IF "FAILED" \in RecordedStatuses THEN "FAILED"
              ELSE IF "RUNNING" \in RecordedStatuses THEN "RUNNING"
              ELSE IF RecordedStatuses \ {""} # {} THEN "SUCCESS"
              ELSE "RUNNING"
    /\ ResetDiscardsStages

\* fetch was recorded as SUCCESS and prepare as FAILED under the run_id
\* of the document, and the invocation has returned
C32_Witness ==
    /\ StoredByUpdate
    /\ pst.proc["A"].pc = "idle"
    /\ pst.json.stages["fetch"] = "SUCCESS"
    /\ pst.json.stages["prepare"] = "FAILED"
    /\ pst.json.overall_status = "FAILED"
    /\ pst.json.rid["fetch"] = pst.json.run_id
    /\ pst.json.rid["prepare"] = pst.json.run_id

\* C33: when two invocations for different stages of one run directory
\* run at the same time, then after both have completed
\* PIPELINE_STATUS.json exists and holds the stage entries of both
C33_ConcurrentUpdatesKeepBoth ==
    (\A p \in {"A", "B"} : pst.proc[p].pc = "idle") =>
        \A p \in {"A", "B"} :
            pst.proc[p].recorded # {} =>
                /\ pst.json_exists
                /\ \A s \in pst.proc[p].recorded : pst.json.stages[s] # "absent"

\* C34: the overall_status written by a stage update is computed only
\* from the stage entries recorded under the run_id of the document
C34_OverallFromCurrentRunOnly ==
    StoredByUpdate =>
        pst.json.overall_status =
            compute_overall([s \in StageNames |->
                IF pst.json.rid[s] = pst.json.run_id THEN pst.json.stages[s]
                ELSE "absent"])

\* the same for the documents all of whose stage entries were recorded
\* under the run_id of the document
C34_OverallOfSingleRun ==
    (StoredByUpdate /\ \A s \in StageNames : pst.json.rid[s] \in {"", pst.json.run_id}) =>
        pst.json.overall_status = compute_overall(pst.json.stages)

====
